---- MODULE Spec2Model ----
(***************************************************************************)
(* Pathfinder-Visualizer: the grid search engines (Dijkstra.js, AStar.js)  *)
(* and the PathfindingVisualizer controller, as state machines.            *)
(*                                                                         *)
(* A cell is the pair <<row, col>>; a node object of the JavaScript grid   *)
(* is the record grid[cell].  previousNode holds a cell or Null.           *)
(***************************************************************************)
EXTENDS Integers, Sequences, FiniteSets, TLC

\* ---------------------------------------------------------------- bounds
NumRows == 2
NumCols == 3
MaxWalls == 2
\* user gestures in one run of the controller
MaxOps == 4
\* searches, and wall animations, in flight at the same time
MaxTasks == 2
\* Rows and columns of the open grid of the corner-to-corner scenario.
ScenarioRows == 5
ScenarioCols == 5
\* Engine calls made one after another on the same grid.
MaxRuns == 2
\* Tests Math.random() < density that come out true in one call of a random
\* maze generator, and cluster tests that do.
MaxRandomWalls == 2
MaxClusterWalls == 1
\* Height and width of the board of the maze generators.
BoardHeight == 7
BoardWidth == 7
MaxStairSize == 9

\* ------------------------------------------------------------- constants
\* JavaScript Infinity: larger than every distance a grid can hold.
Infinity == 1000000
\* null of JavaScript (previousNode of a node never reached)
Null == <<>>
\* null where the other values are strings (wallMode, draggedNodeType)
NoString == "null"
\* animateWalls: wall updates per animation frame at the default speed 'fast'
maxUpdatesPerFrame == 10
\* undefined of JavaScript where the other values are numbers: a property
\* createNode does not give the node (totalDistance, heuristic)
Undefined == -1

VARIABLES
  grid,     \* this.state.grid / the grid argument of the engines
  frame,    \* the locals of the running dijkstra / astar call
  state,    \* this.state of PathfindingVisualizer, the grid apart
  searches, \* the visualizeDijkstra / visualizeAStar calls awaiting a result
  mazes,    \* the animateWalls loops awaiting an animation frame
  ops,      \* user gestures so far
  board     \* the board object handed to a maze generator

vars == <<grid, frame, state, searches, mazes, ops, board>>

ctlVars == <<state, searches, mazes, ops, board>>

\* The cells start, target and object of a board are drawn from: the start
\* in a corner, on the border, next to it or further in.
StartCells == {0, 1, BoardHeight \div 2} \X {0, 1, BoardWidth \div 2}
TargetCells == { <<BoardHeight - 2, BoardWidth - 2>> }
ObjectCells == { <<2, 2>> }

\* No board has been built.
noBoard == [ generator |-> "none" ]

Cells == (0..(NumRows - 1)) \X (0..(NumCols - 1))

Abs(x) == IF x < 0 THEN -x ELSE x

\* ------------------------------------------------------------ Node model
\* createNode of the controller: a node without walls and with the search
\* fields at their defaults.  It gives the node neither totalDistance nor
\* heuristic: astar creates them.
createNode(isStart, isEnd, isCheckpoint) ==
  [ isStart |-> isStart, isEnd |-> isEnd, isCheckpoint |-> isCheckpoint,
    isWall |-> FALSE, isVisited |-> FALSE,
    distance |-> Infinity, totalDistance |-> Undefined, heuristic |-> Undefined,
    previousNode |-> Null ]

\* grid.length and grid[0].length.
heightOf(g) == Cardinality({ c \in DOMAIN g : c[2] = 0 })

widthOf(g) == Cardinality({ c \in DOMAIN g : c[1] = 0 })

\* getAllNodes: the grid flattened row by row.
getAllNodes(g) ==
  [ i \in 1..(heightOf(g) * widthOf(g)) |->
      << (i - 1) \div widthOf(g), (i - 1) % widthOf(g) >> ]

manhattanDistance(node, finishNode) ==
  Abs(node[1] - finishNode[1]) + Abs(node[2] - finishNode[2])

\* Mutant: the neighbour to the left pushed before the one below.
neighborsOf_LeftBeforeDown(node, g) ==
  LET row == node[1]
      col == node[2]
  IN  (IF row > 0 THEN << <<row - 1, col>> >> ELSE <<>>)
      \o (IF col > 0 THEN << <<row, col - 1>> >> ELSE <<>>)
      \o (IF row < heightOf(g) - 1 THEN << <<row + 1, col>> >> ELSE <<>>)
      \o (IF col < widthOf(g) - 1 THEN << <<row, col + 1>> >> ELSE <<>>)

\* The in-bounds neighbours in the order up, down, left, right.
neighborsOf(node, g) ==
  LET row == node[1]
      col == node[2]
  IN  (IF row > 0 THEN << <<row - 1, col>> >> ELSE <<>>)
      \o (IF row < heightOf(g) - 1 THEN << <<row + 1, col>> >> ELSE <<>>)
      \o (IF col > 0 THEN << <<row, col - 1>> >> ELSE <<>>)
      \o (IF col < widthOf(g) - 1 THEN << <<row, col + 1>> >> ELSE <<>>)

\* Mutant: the neighbour to the right is never looked at.
getUnvisitedNeighbors_NoRight(node, g) ==
  SelectSeq(neighborsOf(node, g),
            LAMBDA n : ~g[n].isVisited /\ n # <<node[1], node[2] + 1>>)

getUnvisitedNeighbors(node, g) ==
  SelectSeq(neighborsOf(node, g), LAMBDA n : ~g[n].isVisited)

SeqToSet(s) == { s[i] : i \in 1..Len(s) }

\* Array.prototype.sort with the comparator a.key - b.key: a stable sort
\* (SortSeq inserts each element after the elements that are not greater).
\* Mutant: the unvisited nodes are left in the order they are in.
sortNodesByDistance_Unsorted(nodes, g) == nodes

sortNodesByDistance(nodes, g) ==
  LET key == [c \in DOMAIN g |-> g[c].distance] IN SortSeq(nodes, LAMBDA a, b : key[a] < key[b])

sortNodesByTotalDistance(nodes, g) ==
  LET key == [c \in DOMAIN g |-> g[c].totalDistance] IN SortSeq(nodes, LAMBDA a, b : key[a] < key[b])

\* ------------------------------------------------------------- Dijkstra
\* Mutant: the reset without the assignment startNode.distance = 0.
dijkstraReset_NoStart(g, startNode) ==
  [ c \in DOMAIN g |->
      [ g[c] EXCEPT !.distance = Infinity,
                    !.previousNode = Null,
                    !.isVisited = FALSE ] ]

\* The reset at the start of dijkstra.
dijkstraReset(g, startNode) ==
  [ c \in DOMAIN g |->
      [ g[c] EXCEPT !.distance = IF c = startNode THEN 0 ELSE Infinity,
                    !.previousNode = Null,
                    !.isVisited = FALSE ] ]

\* Mutant: the relaxation without neighbor.previousNode = node.
updateUnvisitedNeighbors_NoPrevious(node, g) ==
  LET unvisitedNeighbors == SeqToSet(getUnvisitedNeighbors(node, g))
  IN  [ c \in DOMAIN g |->
          IF c \in unvisitedNeighbors
          THEN [ g[c] EXCEPT !.distance = g[node].distance + 1 ]
          ELSE g[c] ]

updateUnvisitedNeighbors(node, g) ==
  LET unvisitedNeighbors == SeqToSet(getUnvisitedNeighbors(node, g))
  IN  [ c \in DOMAIN g |->
          IF c \in unvisitedNeighbors
          THEN [ g[c] EXCEPT !.distance = g[node].distance + 1,
                             !.previousNode = node ]
          ELSE g[c] ]

\* Mutant: the loop body without the test that skips walls.
dijkstraStep_NoWallSkip(g, f) ==
  IF f.unvisitedNodes = <<>>
  THEN [ grid |-> g, frame |-> [f EXCEPT !.pc = "returned"] ]
  ELSE
    LET sorted      == sortNodesByDistance(f.unvisitedNodes, g)
        closestNode == Head(sorted)
        rest        == Tail(sorted)
    IN  IF g[closestNode].distance = Infinity
        THEN [ grid |-> g,
               frame |-> [f EXCEPT !.unvisitedNodes = rest, !.pc = "returned"] ]
        ELSE
          LET g1 == [g EXCEPT ![closestNode].isVisited = TRUE]
              f1 == [f EXCEPT !.unvisitedNodes = rest,
                              !.visitedNodesInOrder = Append(@, closestNode)]
          IN  IF closestNode = f.finishNode
              THEN [ grid |-> g1, frame |-> [f1 EXCEPT !.pc = "returned"] ]
              ELSE [ grid |-> updateUnvisitedNeighbors(closestNode, g1),
                     frame |-> f1 ]

\* Mutant: the loop body without the return at the target.
RECURSIVE dijkstraStep_PastTarget(_, _)
dijkstraStep_PastTarget(g, f) ==
  IF f.unvisitedNodes = <<>>
  THEN [ grid |-> g, frame |-> [f EXCEPT !.pc = "returned"] ]
  ELSE
    LET sorted      == sortNodesByDistance(f.unvisitedNodes, g)
        closestNode == Head(sorted)
        rest        == Tail(sorted)
    IN  IF g[closestNode].isWall
        THEN dijkstraStep_PastTarget(g, [f EXCEPT !.unvisitedNodes = rest])
        ELSE IF g[closestNode].distance = Infinity
        THEN [ grid |-> g,
               frame |-> [f EXCEPT !.unvisitedNodes = rest, !.pc = "returned"] ]
        ELSE
          LET g1 == [g EXCEPT ![closestNode].isVisited = TRUE]
              f1 == [f EXCEPT !.unvisitedNodes = rest,
                              !.visitedNodesInOrder = Append(@, closestNode)]
          IN  [ grid |-> updateUnvisitedNeighbors(closestNode, g1),
                frame |-> f1 ]

\* The while loop of dijkstra from one await to the next, or to the return:
\* the iterations that pop a wall (continue) and the iteration after them.
RECURSIVE dijkstraStep(_, _)
dijkstraStep(g, f) ==
  IF f.unvisitedNodes = <<>>
  THEN [ grid |-> g, frame |-> [f EXCEPT !.pc = "returned"] ]
  ELSE
    LET sorted      == sortNodesByDistance(f.unvisitedNodes, g)
        closestNode == Head(sorted)
        rest        == Tail(sorted)
    IN  IF g[closestNode].isWall
        THEN dijkstraStep(g, [f EXCEPT !.unvisitedNodes = rest])
        ELSE IF g[closestNode].distance = Infinity
        THEN [ grid |-> g,
               frame |-> [f EXCEPT !.unvisitedNodes = rest, !.pc = "returned"] ]
        ELSE
          LET g1 == [g EXCEPT ![closestNode].isVisited = TRUE]
              f1 == [f EXCEPT !.unvisitedNodes = rest,
                              !.visitedNodesInOrder = Append(@, closestNode)]
          IN  IF closestNode = f.finishNode
              THEN [ grid |-> g1, frame |-> [f1 EXCEPT !.pc = "returned"] ]
              ELSE [ grid |-> updateUnvisitedNeighbors(closestNode, g1),
                     frame |-> f1 ]

\* ------------------------------------------------------------------- A*
\* Mutant: the reset without startNode.totalDistance = startNode.heuristic.
astarReset_NoStartTotal(g, startNode, finishNode) ==
  [ c \in DOMAIN g |->
      [ g[c] EXCEPT !.distance = IF c = startNode THEN 0 ELSE Infinity,
                    !.totalDistance = Infinity,
                    !.previousNode = Null,
                    !.isVisited = FALSE,
                    !.heuristic = manhattanDistance(c, finishNode) ] ]

\* Mutant: the reset without node.distance = Infinity for the other nodes.
astarReset_KeepDistance(g, startNode, finishNode) ==
  [ c \in DOMAIN g |->
      IF c # startNode
      THEN [ g[c] EXCEPT !.totalDistance = Infinity,
                         !.previousNode = Null,
                         !.isVisited = FALSE,
                         !.heuristic = manhattanDistance(c, finishNode) ]
      ELSE [ g[c] EXCEPT !.distance = 0,
                         !.heuristic = manhattanDistance(c, finishNode),
                         !.totalDistance = manhattanDistance(c, finishNode),
                         !.previousNode = Null,
                         !.isVisited = FALSE ] ]

astarReset(g, startNode, finishNode) ==
  [ c \in DOMAIN g |->
      IF c # startNode
      THEN [ g[c] EXCEPT !.distance = Infinity,
                         !.totalDistance = Infinity,
                         !.previousNode = Null,
                         !.isVisited = FALSE,
                         !.heuristic = manhattanDistance(c, finishNode) ]
      ELSE [ g[c] EXCEPT !.distance = 0,
                         !.heuristic = manhattanDistance(c, finishNode),
                         !.totalDistance = manhattanDistance(c, finishNode),
                         !.previousNode = Null,
                         !.isVisited = FALSE ] ]

\* Mutant: the comparison of the relaxation reversed.
updateUnvisitedNeighborsAstar_Reversed(node, g, finishNode) ==
  LET unvisitedNeighbors == SeqToSet(getUnvisitedNeighbors(node, g))
      tentativeDistance  == g[node].distance + 1
  IN  [ c \in DOMAIN g |->
          IF c \in unvisitedNeighbors /\ tentativeDistance > g[c].distance
          THEN [ g[c] EXCEPT
                   !.previousNode = node,
                   !.distance = tentativeDistance,
                   !.totalDistance =
                       tentativeDistance + manhattanDistance(c, finishNode) ]
          ELSE g[c] ]

\* Mutant: totalDistance computed with the heuristic left in the neighbour.
updateUnvisitedNeighborsAstar_StoredHeuristic(node, g, finishNode) ==
  LET unvisitedNeighbors == SeqToSet(getUnvisitedNeighbors(node, g))
      tentativeDistance  == g[node].distance + 1
  IN  [ c \in DOMAIN g |->
          IF c \in unvisitedNeighbors /\ tentativeDistance < g[c].distance
          THEN [ g[c] EXCEPT
                   !.previousNode = node,
                   !.distance = tentativeDistance,
                   !.totalDistance = tentativeDistance + g[node].heuristic ]
          ELSE g[c] ]

\* Mutant: the neighbour gets the distance of the node, not one more.
updateUnvisitedNeighborsAstar_NoIncrement(node, g, finishNode) ==
  LET unvisitedNeighbors == SeqToSet(getUnvisitedNeighbors(node, g))
      tentativeDistance  == g[node].distance
  IN  [ c \in DOMAIN g |->
          IF c \in unvisitedNeighbors /\ tentativeDistance < g[c].distance
          THEN [ g[c] EXCEPT
                   !.previousNode = node,
                   !.distance = tentativeDistance,
                   !.totalDistance =
                       tentativeDistance + manhattanDistance(c, finishNode) ]
          ELSE g[c] ]

updateUnvisitedNeighborsAstar(node, g, finishNode) ==
  LET unvisitedNeighbors == SeqToSet(getUnvisitedNeighbors(node, g))
      tentativeDistance  == g[node].distance + 1
  IN  [ c \in DOMAIN g |->
          IF c \in unvisitedNeighbors /\ tentativeDistance < g[c].distance
          THEN [ g[c] EXCEPT
                   !.previousNode = node,
                   !.distance = tentativeDistance,
                   !.totalDistance =
                       tentativeDistance + manhattanDistance(c, finishNode) ]
          ELSE g[c] ]

\* The while loop of astar from one await to the next, or to the return.
RECURSIVE astarStep(_, _)
astarStep(g, f) ==
  IF f.unvisitedNodes = <<>>
  THEN [ grid |-> g, frame |-> [f EXCEPT !.pc = "returned"] ]
  ELSE
    LET sorted      == sortNodesByTotalDistance(f.unvisitedNodes, g)
        closestNode == Head(sorted)
        rest        == Tail(sorted)
    IN  IF g[closestNode].isWall
        THEN astarStep(g, [f EXCEPT !.unvisitedNodes = rest])
        ELSE IF g[closestNode].totalDistance = Infinity
        THEN [ grid |-> g,
               frame |-> [f EXCEPT !.unvisitedNodes = rest, !.pc = "returned"] ]
        ELSE
          LET g1 == [g EXCEPT ![closestNode].isVisited = TRUE]
              f1 == [f EXCEPT !.unvisitedNodes = rest,
                              !.visitedNodesInOrder = Append(@, closestNode)]
          IN  IF closestNode = f.finishNode
              THEN [ grid |-> g1, frame |-> [f1 EXCEPT !.pc = "returned"] ]
              ELSE [ grid |-> updateUnvisitedNeighborsAstar(closestNode, g1,
                                                            f.finishNode),
                     frame |-> f1 ]

\* ---------------------------------------------------- path reconstruction
\* getNodesInShortestPathOrder: walk previousNode back from finishNode.  A
\* chain longer than the grid has a cycle (the JavaScript loop would not
\* end); the walk is cut there.
RECURSIVE walkBack(_, _, _)
walkBack(g, currentNode, fuel) ==
  IF currentNode = Null \/ fuel = 0 THEN <<>>
  ELSE Append(walkBack(g, g[currentNode].previousNode, fuel - 1), currentNode)

\* Mutant: the nodes pushed instead of unshifted, the target first.
getNodesInShortestPathOrder_Pushed(g, finishNode) ==
  LET path == walkBack(g, finishNode, Cardinality(DOMAIN g) + 1)
  IN  [ i \in 1..Len(path) |-> path[Len(path) + 1 - i] ]

getNodesInShortestPathOrder(g, finishNode) ==
  walkBack(g, finishNode, Cardinality(DOMAIN g) + 1)

\* ------------------------------------------------------ engine, as calls
idleFrame ==
  [ algorithm |-> "none", startNode |-> Null, finishNode |-> Null,
    unvisitedNodes |-> <<>>, visitedNodesInOrder |-> <<>>, pc |-> "idle" ]

\* The default positions of resolutionConfigs on the grid of the model: the
\* middle row, a third and two thirds of the way across.
defaultStartNode == << NumRows \div 2, NumCols \div 3 >>
defaultEndNode == << NumRows \div 2, (2 * NumCols) \div 3 >>

\* this.state as the constructor leaves it.  The checkpoint record has no
\* row and col yet (pos = Null).
initialState ==
  [ isRunning |-> FALSE, isVisualizing |-> FALSE,
    mouseIsPressed |-> FALSE, wallMode |-> NoString, message |-> Null,
    dragging |-> [ isDragging |-> FALSE, draggedNodeType |-> NoString ],
    startNode |-> defaultStartNode, endNode |-> defaultEndNode,
    checkpoint |-> [ pos |-> Null, exists |-> FALSE ],
    boostWallEnabled |-> FALSE ]

\* A grid as initializeGrid builds it, then walls drawn on the cells of W.
gridWithWalls(W) ==
  [ c \in Cells |-> [ createNode(FALSE, FALSE, FALSE) EXCEPT !.isWall = c \in W ] ]

Init ==
  /\ \E W \in SUBSET Cells :
       /\ Cardinality(W) <= MaxWalls
       /\ grid = gridWithWalls(W)
  /\ frame = idleFrame
  /\ state = initialState
  /\ searches = <<>>
  /\ mazes = <<>>
  /\ ops = 0
  /\ board = noBoard

\* dijkstra(grid, startNode, endNode): the code before the loop.
CallDijkstra(startNode, endNode) ==
  /\ frame.pc = "idle"
  /\ grid' = dijkstraReset(grid, startNode)
  /\ frame' = [ algorithm |-> "dijkstra", startNode |-> startNode,
                finishNode |-> endNode, unvisitedNodes |-> getAllNodes(grid),
                visitedNodesInOrder |-> <<>>, pc |-> "loop" ]
  /\ UNCHANGED ctlVars

\* astar(grid, startNode, finishNode): the code before the loop.
CallAstar(startNode, finishNode) ==
  /\ frame.pc = "idle"
  /\ grid' = astarReset(grid, startNode, finishNode)
  /\ frame' = [ algorithm |-> "astar", startNode |-> startNode,
                finishNode |-> finishNode, unvisitedNodes |-> getAllNodes(grid),
                visitedNodesInOrder |-> <<>>, pc |-> "loop" ]
  /\ UNCHANGED ctlVars

DijkstraLoop ==
  /\ frame.pc = "loop"
  /\ frame.algorithm = "dijkstra"
  /\ LET r == dijkstraStep(grid, frame)
     IN  grid' = r.grid /\ frame' = r.frame
  /\ UNCHANGED ctlVars

\* Mutant: the test for a wall made before the shift, so that a wall at the
\* head of the sorted list is looked at again and again.
AstarLoop_WallBeforeShift ==
  /\ frame.pc = "loop"
  /\ frame.algorithm = "astar"
  /\ LET sorted == sortNodesByTotalDistance(frame.unvisitedNodes, grid)
     IN  sorted = <<>> \/ ~grid[Head(sorted)].isWall
  /\ LET r == astarStep(grid, frame)
     IN  grid' = r.grid /\ frame' = r.frame
  /\ UNCHANGED ctlVars

AstarLoop ==
  /\ frame.pc = "loop"
  /\ frame.algorithm = "astar"
  /\ LET r == astarStep(grid, frame)
     IN  grid' = r.grid /\ frame' = r.frame
  /\ UNCHANGED ctlVars

Next ==
  \/ \E s \in Cells, t \in Cells : CallDijkstra(s, t)
  \/ \E s \in Cells, t \in Cells : CallAstar(s, t)
  \/ DijkstraLoop
  \/ AstarLoop

Spec == Init /\ [][Next]_vars

\* The timer a loop awaits always fires: a loop that can take its next
\* iteration takes it.
LiveSpec ==
  Init /\ [][Next]_vars /\ WF_vars(DijkstraLoop) /\ WF_vars(AstarLoop)

\* ------------------------------------- the engines on a larger open grid
\* A grid of ScenarioRows x ScenarioCols nodes without walls, and searches
\* between its corners.
ScenarioCells == (0..(ScenarioRows - 1)) \X (0..(ScenarioCols - 1))

ScenarioCorners == {0, ScenarioRows - 1} \X {0, ScenarioCols - 1}

ScenarioInit ==
  /\ grid = [ c \in ScenarioCells |-> createNode(FALSE, FALSE, FALSE) ]
  /\ frame = idleFrame
  /\ state = initialState
  /\ searches = <<>>
  /\ mazes = <<>>
  /\ ops = 0
  /\ board = noBoard

ScenarioNext ==
  \/ \E s \in ScenarioCorners, t \in ScenarioCorners : CallDijkstra(s, t)
  \/ \E s \in ScenarioCorners, t \in ScenarioCorners : CallAstar(s, t)
  \/ DijkstraLoop
  \/ AstarLoop

ScenarioSpec == ScenarioInit /\ [][ScenarioNext]_vars

\* ------------------------------------------------- the engines, run whole
newFrame(algorithm, g, startNode, finishNode) ==
  [ algorithm |-> algorithm, startNode |-> startNode, finishNode |-> finishNode,
    unvisitedNodes |-> getAllNodes(g), visitedNodesInOrder |-> <<>>, pc |-> "loop" ]

RECURSIVE dijkstraLoop(_, _)
dijkstraLoop(g, f) ==
  IF f.pc = "returned" THEN [ grid |-> g, frame |-> f ]
  ELSE LET r == dijkstraStep(g, f) IN dijkstraLoop(r.grid, r.frame)

\* dijkstra(grid, startNode, endNode, speed) awaited: the delayed loop run to
\* its return with nothing else touching the grid between its yields.
dijkstra(g, startNode, endNode) ==
  dijkstraLoop(dijkstraReset(g, startNode),
               newFrame("dijkstra", g, startNode, endNode))

RECURSIVE astarLoop(_, _)
astarLoop(g, f) ==
  IF f.pc = "returned" THEN [ grid |-> g, frame |-> f ]
  ELSE LET r == astarStep(g, f) IN astarLoop(r.grid, r.frame)

\* astar(grid, startNode, finishNode, speed) awaited, as dijkstra above.
astar(g, startNode, finishNode) ==
  astarLoop(astarReset(g, startNode, finishNode),
            newFrame("astar", g, startNode, finishNode))

\* ------------------------------------------- the loops of speed 'instant'
\* One iteration of the while loop under speed === 'instant' in dijkstra.
dijkstraInstantIteration(g, f) ==
  LET sorted      == sortNodesByDistance(f.unvisitedNodes, g)
      closestNode == Head(sorted)
      popped      == [f EXCEPT !.unvisitedNodes = Tail(sorted)]
  IN  IF g[closestNode].isWall
      THEN [ grid |-> g, frame |-> popped ]
      ELSE IF g[closestNode].distance = Infinity
      THEN [ grid |-> g, frame |-> [popped EXCEPT !.pc = "returned"] ]
      ELSE
        LET g1 == [g EXCEPT ![closestNode].isVisited = TRUE]
            f1 == [popped EXCEPT !.visitedNodesInOrder = Append(@, closestNode)]
        IN  IF closestNode = f.finishNode
            THEN [ grid |-> g1, frame |-> [f1 EXCEPT !.pc = "returned"] ]
            ELSE [ grid |-> updateUnvisitedNeighbors(closestNode, g1),
                   frame |-> f1 ]

RECURSIVE dijkstraInstantLoop(_, _)
dijkstraInstantLoop(g, f) ==
  IF f.pc = "returned" THEN [ grid |-> g, frame |-> f ]
  ELSE IF f.unvisitedNodes = <<>>
  THEN [ grid |-> g, frame |-> [f EXCEPT !.pc = "returned"] ]
  ELSE LET r == dijkstraInstantIteration(g, f)
       IN  dijkstraInstantLoop(r.grid, r.frame)

\* dijkstra(grid, startNode, endNode, 'instant').
dijkstraInstant(g, startNode, endNode) ==
  dijkstraInstantLoop(dijkstraReset(g, startNode),
                      newFrame("dijkstra", g, startNode, endNode))

\* Mutant: the instant loop of astar ordering the nodes by distance.
astarInstantIteration_SortByDistance(g, f) ==
  LET sorted      == sortNodesByDistance(f.unvisitedNodes, g)
      closestNode == Head(sorted)
      popped      == [f EXCEPT !.unvisitedNodes = Tail(sorted)]
  IN  IF g[closestNode].isWall
      THEN [ grid |-> g, frame |-> popped ]
      ELSE IF g[closestNode].totalDistance = Infinity
      THEN [ grid |-> g, frame |-> [popped EXCEPT !.pc = "returned"] ]
      ELSE
        LET g1 == [g EXCEPT ![closestNode].isVisited = TRUE]
            f1 == [popped EXCEPT !.visitedNodesInOrder = Append(@, closestNode)]
        IN  IF closestNode = f.finishNode
            THEN [ grid |-> g1, frame |-> [f1 EXCEPT !.pc = "returned"] ]
            ELSE [ grid |-> updateUnvisitedNeighborsAstar(closestNode, g1,
                                                          f.finishNode),
                   frame |-> f1 ]

\* One iteration of the while loop under speed === 'instant' in astar.
astarInstantIteration(g, f) ==
  LET sorted      == sortNodesByTotalDistance(f.unvisitedNodes, g)
      closestNode == Head(sorted)
      popped      == [f EXCEPT !.unvisitedNodes = Tail(sorted)]
  IN  IF g[closestNode].isWall
      THEN [ grid |-> g, frame |-> popped ]
      ELSE IF g[closestNode].totalDistance = Infinity
      THEN [ grid |-> g, frame |-> [popped EXCEPT !.pc = "returned"] ]
      ELSE
        LET g1 == [g EXCEPT ![closestNode].isVisited = TRUE]
            f1 == [popped EXCEPT !.visitedNodesInOrder = Append(@, closestNode)]
        IN  IF closestNode = f.finishNode
            THEN [ grid |-> g1, frame |-> [f1 EXCEPT !.pc = "returned"] ]
            ELSE [ grid |-> updateUnvisitedNeighborsAstar(closestNode, g1,
                                                          f.finishNode),
                   frame |-> f1 ]

RECURSIVE astarInstantLoop(_, _)
astarInstantLoop(g, f) ==
  IF f.pc = "returned" THEN [ grid |-> g, frame |-> f ]
  ELSE IF f.unvisitedNodes = <<>>
  THEN [ grid |-> g, frame |-> [f EXCEPT !.pc = "returned"] ]
  ELSE LET r == astarInstantIteration(g, f)
       IN  astarInstantLoop(r.grid, r.frame)

\* astar(grid, startNode, finishNode, 'instant').
astarInstant(g, startNode, finishNode) ==
  astarInstantLoop(astarReset(g, startNode, finishNode),
                   newFrame("astar", g, startNode, finishNode))

\* ------------------------------------------- the loops under speed 'instant'
\* One turn of the while loop of dijkstra under speed === 'instant': the
\* test of the while, then the body.
DijkstraInstantLoop ==
  /\ frame.pc = "loop"
  /\ frame.algorithm = "dijkstra"
  /\ LET r == IF frame.unvisitedNodes = <<>>
              THEN [ grid |-> grid, frame |-> [frame EXCEPT !.pc = "returned"] ]
              ELSE dijkstraInstantIteration(grid, frame)
     IN  grid' = r.grid /\ frame' = r.frame
  /\ UNCHANGED ctlVars

\* One turn of the while loop of astar under speed === 'instant'.
AstarInstantLoop ==
  /\ frame.pc = "loop"
  /\ frame.algorithm = "astar"
  /\ LET r == IF frame.unvisitedNodes = <<>>
              THEN [ grid |-> grid, frame |-> [frame EXCEPT !.pc = "returned"] ]
              ELSE astarInstantIteration(grid, frame)
     IN  grid' = r.grid /\ frame' = r.frame
  /\ UNCHANGED ctlVars

InstantNext ==
  \/ \E s \in Cells, t \in Cells : CallDijkstra(s, t)
  \/ \E s \in Cells, t \in Cells : CallAstar(s, t)
  \/ DijkstraInstantLoop
  \/ AstarInstantLoop

InstantSpec == Init /\ [][InstantNext]_vars

\* ------------------------------------------------------------ controller
\* PathfindingVisualizer.  A handler runs to its end before the next event
\* is handled, its setState calls applied together; what it leaves to a
\* timer, an animation frame or an awaited call is an action of its own.

isSpecial(node) == node.isStart \/ node.isEnd \/ node.isCheckpoint

\* initializeGrid: createNode for every cell, the roles from this.state.
initializeGrid(st) ==
  [ c \in Cells |->
      createNode(c = st.startNode, c = st.endNode,
                 st.checkpoint.exists /\ c = st.checkpoint.pos) ]

CtlInit ==
  /\ state = initialState
  /\ grid = initializeGrid(initialState)
  /\ frame = idleFrame
  /\ searches = <<>>
  /\ mazes = <<>>
  /\ ops = 0
  /\ board = noBoard

\* One more user gesture: a click, a mouse event on a cell, the start of a
\* drag (the drop that ends the drag belongs to it).
UserEvent == ops < MaxOps /\ ops' = ops + 1

getNewGridWithWallMode(g, cell, wallMode) ==
  IF isSpecial(g[cell]) THEN g
  ELSE [g EXCEPT ![cell].isWall = (wallMode = "add")]

\* createBoostWalls: the centre and its four neighbours, special nodes
\* left alone.
boostPattern(cell) ==
  { c \in Cells : c = cell \/ Abs(c[1] - cell[1]) + Abs(c[2] - cell[2]) = 1 }

\* Mutant: the pattern applied to special nodes too.
createBoostWalls_NoSpecialTest(g, cell, wallMode) ==
  [ c \in Cells |->
      IF c \in boostPattern(cell)
      THEN [ g[c] EXCEPT !.isWall = (wallMode = "add") ]
      ELSE g[c] ]

createBoostWalls(g, cell, wallMode) ==
  [ c \in Cells |->
      IF c \in boostPattern(cell) /\ ~isSpecial(g[c])
      THEN [ g[c] EXCEPT !.isWall = (wallMode = "add") ]
      ELSE g[c] ]

\* handleMouseDown(row, col): the grid it leaves.  It returns at once
\* while a search runs, during a drag and on a special node.
handleMouseDownGrid(g, st, cell) ==
  IF st.isRunning \/ st.dragging.isDragging \/ isSpecial(g[cell]) THEN g
  ELSE LET wallMode == IF g[cell].isWall THEN "remove" ELSE "add"
       IN  IF st.boostWallEnabled /\ wallMode = "add"
           THEN createBoostWalls(g, cell, wallMode)
           ELSE getNewGridWithWallMode(g, cell, wallMode)

handleMouseDown(cell) ==
  /\ UserEvent
  /\ ~state.isRunning
  /\ ~state.dragging.isDragging
  /\ ~isSpecial(grid[cell])
  /\ grid' = handleMouseDownGrid(grid, state, cell)
  /\ LET wallMode == IF grid[cell].isWall THEN "remove" ELSE "add"
     IN  state' = [state EXCEPT
                     !.mouseIsPressed = TRUE,
                     !.wallMode = wallMode,
                     !.message = IF state.boostWallEnabled /\ wallMode = "add"
                                 THEN cell ELSE Null]
  /\ UNCHANGED <<frame, board, searches, mazes>>

\* handleMouseEnter(row, col): the grid it leaves.  It has no test of
\* isRunning.
handleMouseEnterGrid(g, st, cell) ==
  IF \/ ~st.mouseIsPressed \/ st.dragging.isDragging
     \/ st.message = cell \/ isSpecial(g[cell])
  THEN g
  ELSE IF st.boostWallEnabled /\ st.wallMode = "add"
       THEN createBoostWalls(g, cell, st.wallMode)
       ELSE getNewGridWithWallMode(g, cell, st.wallMode)

handleMouseEnter(cell) ==
  /\ UserEvent
  /\ state.mouseIsPressed
  /\ ~state.dragging.isDragging
  /\ state.message # cell
  /\ ~isSpecial(grid[cell])
  /\ grid' = handleMouseEnterGrid(grid, state, cell)
  /\ state' = [state EXCEPT !.message = cell]
  /\ UNCHANGED <<frame, board, searches, mazes>>

handleMouseUp ==
  /\ UserEvent
  /\ state.mouseIsPressed \/ state.wallMode # NoString \/ state.message # Null
  /\ state' = [state EXCEPT !.mouseIsPressed = FALSE,
                            !.wallMode = NoString,
                            !.message = Null]
  /\ UNCHANGED <<grid, frame, board, searches, mazes>>

toggleBoostWall ==
  /\ UserEvent
  /\ state' = [state EXCEPT !.boostWallEnabled = ~@]
  /\ UNCHANGED <<grid, frame, board, searches, mazes>>

\* handleDragStart on the node under the pointer; only a special node is
\* draggable.
handleDragStart(cell) ==
  /\ UserEvent
  /\ ~state.isRunning
  /\ isSpecial(grid[cell])
  /\ LET type == IF grid[cell].isStart THEN "start"
                 ELSE IF grid[cell].isEnd THEN "end" ELSE "checkpoint"
     IN  /\ state.dragging # [ isDragging |-> TRUE, draggedNodeType |-> type ]
         /\ state' = [state EXCEPT
                        !.dragging = [ isDragging |-> TRUE,
                                       draggedNodeType |-> type ]]
  /\ UNCHANGED <<grid, frame, board, searches, mazes>>

\* Mutant: the drop without the test of targetNode.isWall.
handleDropGrid_NoWallTest(g, st, cell) ==
  IF ~st.dragging.isDragging THEN g
  ELSE
    LET type == st.dragging.draggedNodeType
        holds(node) == \/ type = "start" /\ node.isStart
                       \/ type = "end" /\ node.isEnd
                       \/ type = "checkpoint" /\ node.isCheckpoint
        newGrid == [ c \in Cells |->
                       IF holds(g[c])
                       THEN [ g[c] EXCEPT !.isStart = FALSE,
                                          !.isEnd = FALSE,
                                          !.isCheckpoint = FALSE ]
                       ELSE g[c] ]
    IN  [ newGrid EXCEPT
            ![cell] = [ g[cell] EXCEPT
                          !.isStart = (type = "start"),
                          !.isEnd = (type = "end"),
                          !.isCheckpoint = (type = "checkpoint") ] ]

\* handleDrop(e, targetNode): the grid it leaves.  It returns at once when
\* nothing is dragged or the target is a wall; otherwise every holder of the
\* dragged role loses all its roles, and the drop target gets the dragged
\* role and no other.
handleDropGrid(g, st, cell) ==
  IF ~st.dragging.isDragging \/ g[cell].isWall THEN g
  ELSE
    LET type == st.dragging.draggedNodeType
        holds(node) == \/ type = "start" /\ node.isStart
                       \/ type = "end" /\ node.isEnd
                       \/ type = "checkpoint" /\ node.isCheckpoint
        newGrid == [ c \in Cells |->
                       IF holds(g[c])
                       THEN [ g[c] EXCEPT !.isStart = FALSE,
                                          !.isEnd = FALSE,
                                          !.isCheckpoint = FALSE ]
                       ELSE g[c] ]
    IN  [ newGrid EXCEPT
            ![cell] = [ g[cell] EXCEPT
                          !.isStart = (type = "start"),
                          !.isEnd = (type = "end"),
                          !.isCheckpoint = (type = "checkpoint") ] ]

\* A drop that gets past the two tests; it ends the drag.
handleDrop(cell) ==
  /\ state.dragging.isDragging
  /\ ~grid[cell].isWall
  /\ grid' = handleDropGrid(grid, state, cell)
  /\ state' = [state EXCEPT
                 !.dragging = [ isDragging |-> FALSE,
                                draggedNodeType |-> NoString ]]
  /\ UNCHANGED <<frame, board, searches, mazes, ops>>

\* getRandomEmptyPosition: the cells it can return (any of them, by the
\* random attempts or the scan); it returns null when there is none.
getRandomEmptyPosition(g) ==
  { c \in Cells : ~g[c].isWall /\ ~isSpecial(g[c]) }

\* The button shows 'Add Checkpoint' while state.checkpoint.exists is false
\* and is disabled while isVisualizing.
addCheckpoint ==
  /\ UserEvent
  /\ ~state.isVisualizing
  /\ ~state.checkpoint.exists
  /\ \E position \in getRandomEmptyPosition(grid) :
       /\ grid' = [grid EXCEPT ![position].isCheckpoint = TRUE]
       /\ state' = [state EXCEPT
                      !.checkpoint = [ pos |-> position, exists |-> TRUE ]]
  /\ UNCHANGED <<frame, board, searches, mazes>>

\* removeCheckpoint clears the cell recorded in state.checkpoint.
removeCheckpoint ==
  /\ UserEvent
  /\ ~state.isVisualizing
  /\ state.checkpoint.exists
  /\ grid' = [grid EXCEPT ![state.checkpoint.pos].isCheckpoint = FALSE]
  /\ state' = [state EXCEPT !.checkpoint.exists = FALSE]
  /\ UNCHANGED <<frame, board, searches, mazes>>

\* A search that was started on node objects the grid no longer holds goes
\* on working on those objects: it gets the grid it had as its own.
detach(tasks, g) ==
  [ i \in 1..Len(tasks) |->
      IF tasks[i].detached THEN tasks[i]
      ELSE [ tasks[i] EXCEPT !.detached = TRUE, !.own = g ] ]

\* randomizeNodes: all roles cleared, then start, end and (if the record
\* says one exists) checkpoint each drawn from the empty cells of the
\* cleared grid, none of them marked before all are drawn.
randomizeNodes ==
  /\ UserEvent
  /\ ~state.isVisualizing
  /\ LET cleared == [ c \in Cells |->
                        [ grid[c] EXCEPT !.isStart = FALSE, !.isEnd = FALSE,
                                         !.isCheckpoint = FALSE ] ]
         empty   == getRandomEmptyPosition(cleared)
         draw    == IF empty = {} THEN {Null} ELSE empty
     IN  \E newStart \in draw, newEnd \in draw,
            newCheckpoint \in IF state.checkpoint.exists THEN draw ELSE {Null} :
           /\ grid' = [ c \in Cells |->
                          [ cleared[c] EXCEPT
                              !.isCheckpoint = (c = newCheckpoint),
                              !.isStart = (c = newStart),
                              !.isEnd = (c = newEnd) ] ]
           /\ state' = [state EXCEPT
                          !.startNode = newStart,
                          !.endNode = newEnd,
                          !.checkpoint =
                             IF state.checkpoint.exists /\ newCheckpoint # Null
                             THEN [ pos |-> newCheckpoint, exists |-> TRUE ]
                             ELSE @ ]
  /\ searches' = detach(searches, grid)
  /\ UNCHANGED <<frame, board, mazes>>

\* resetGrid: default positions, no checkpoint (its row and col come out
\* as NaN), flags down, a new grid.  Nothing in flight is cancelled.
resetGrid ==
  /\ UserEvent
  /\ ~state.isVisualizing
  /\ LET st == [state EXCEPT !.startNode = defaultStartNode,
                             !.endNode = defaultEndNode,
                             !.checkpoint = [ pos |-> Null, exists |-> FALSE ],
                             !.isVisualizing = FALSE,
                             !.isRunning = FALSE,
                             !.mouseIsPressed = FALSE]
     IN  /\ state' = st
         /\ grid' = initializeGrid(st)
  /\ searches' = detach(searches, grid)
  /\ UNCHANGED <<frame, board, mazes>>

\* clearWalls() of the controller, on a grid.
clearWallsOf(g) == [ c \in Cells |-> [ g[c] EXCEPT !.isWall = FALSE ] ]

\* The menu entry 'Clear Walls'; it is never disabled.
clearWalls ==
  /\ UserEvent
  /\ \E c \in Cells : grid[c].isWall
  /\ grid' = clearWallsOf(grid)
  /\ UNCHANGED <<frame, board, state, searches, mazes>>

\* ---------------------------------------------- controller: the searches
\* The last node of the scan with the role (the scan keeps overwriting).
lastNodeWith(g, role) ==
  LET nodes == getAllNodes(g)
      found == { i \in 1..Len(nodes) : g[nodes[i]][role] }
  IN  IF found = {} THEN Null
      ELSE nodes[CHOOSE i \in found : \A j \in found : j <= i]

\* findCheckpointPosition: the first checkpoint of the scan, or null.
findCheckpointPosition(g) ==
  LET nodes == getAllNodes(g)
      found == { i \in 1..Len(nodes) : g[nodes[i]].isCheckpoint }
  IN  IF found = {} THEN Null
      ELSE nodes[CHOOSE i \in found : \A j \in found : i <= j]

clearVisualization(g) ==
  [ c \in Cells |-> [ g[c] EXCEPT !.isVisited = FALSE,
                                  !.distance = Infinity,
                                  !.previousNode = Null ] ]

\* Mutant: the reset between the phases taking the walls away as well.
resetForPhase2_ClearsWalls(algorithm, g) ==
  [ c \in Cells |->
      [ g[c] EXCEPT !.distance = Infinity,
                    !.previousNode = Null,
                    !.isVisited = FALSE,
                    !.isWall = FALSE ] ]

\* The reset of the orchestrator between phase 1 and phase 2.
resetForPhase2(algorithm, g) ==
  [ c \in Cells |->
      [ g[c] EXCEPT !.distance = Infinity,
                    !.totalDistance =
                        IF algorithm = "astar" THEN Infinity ELSE @,
                    !.previousNode = Null,
                    !.isVisited = FALSE ] ]

\* The awaited engine call, run to its return: the grid it leaves and its
\* frame (visitedNodesInOrder is the value returned).
engineRun(algorithm, g, startNode, finishNode) ==
  IF algorithm = "dijkstra"
  THEN dijkstra(g, startNode, finishNode)
  ELSE astar(g, startNode, finishNode)

\* The locals of a visualizeDijkstra / visualizeAStar call at its first
\* await.  detached and own: see detach.
newSearch(algorithm, start, end, checkpointPos) ==
  [ algorithm |-> algorithm,
    pc |-> IF checkpointPos # Null THEN "phase1" ELSE "direct",
    startNode |-> start, endNode |-> end, checkpointNode |-> checkpointPos,
    visitedNodesFirst |-> <<>>, directPath |-> <<>>,
    visitedNodesSecond |-> <<>>, visitedNodes |-> <<>>,
    pathToCheckpoint |-> Null, pathNodes |-> Null, pathToEnd |-> Null,
    detached |-> FALSE, own |-> Null ]

\* Mutant: the handler without its first line, the test of isRunning.
visualizeResult_NoRunningTest(algorithm, g, st, tasks) ==
  LET start == lastNodeWith(g, "isStart")
      end   == lastNodeWith(g, "isEnd")
      checkpointPos == findCheckpointPosition(g)
  IN  IF start = Null \/ end = Null
      THEN [ grid |-> g, searches |-> tasks,
             state |-> [st EXCEPT !.isRunning = FALSE, !.isVisualizing = FALSE] ]
      ELSE [ grid |-> clearVisualization(g),
             searches |-> Append(tasks,
                            newSearch(algorithm, start, end, checkpointPos)),
             state |-> [st EXCEPT !.isRunning = TRUE, !.isVisualizing = TRUE] ]

\* visualizeDijkstra / visualizeAStar up to the first await, on the grid g,
\* the state st and the searches in flight: what the three are afterwards.
\* The only guard is isRunning.
visualizeResult(algorithm, g, st, tasks) ==
  IF st.isRunning
  THEN [ grid |-> g, searches |-> tasks, state |-> st ]
  ELSE
    LET start == lastNodeWith(g, "isStart")
        end   == lastNodeWith(g, "isEnd")
        checkpointPos == findCheckpointPosition(g)
    IN  IF start = Null \/ end = Null
        THEN [ grid |-> g, searches |-> tasks,
               state |-> [st EXCEPT !.isRunning = FALSE, !.isVisualizing = FALSE] ]
        ELSE [ grid |-> clearVisualization(g),
               searches |-> Append(tasks,
                              newSearch(algorithm, start, end, checkpointPos)),
               state |-> [st EXCEPT !.isRunning = TRUE, !.isVisualizing = TRUE] ]

\* A click that the handler does not return from at once.
visualize(algorithm) ==
  /\ UserEvent
  /\ ~state.isRunning
  /\ Len(searches) < MaxTasks
  /\ LET r == visualizeResult(algorithm, grid, state, searches)
     IN  grid' = r.grid /\ state' = r.state /\ searches' = r.searches
  /\ UNCHANGED <<frame, board, mazes>>

visualizeDijkstra == visualize("dijkstra")

visualizeAStar == visualize("astar")

\* The start node handed to the engine call the orchestrator t awaits.
searchFrom(t) == IF t.pc = "phase2" THEN t.checkpointNode ELSE t.startNode

\* Mutant: the fallback search aimed at the checkpoint again.
searchTo_FallbackToCheckpoint(t) ==
  IF t.pc \in {"phase1", "fallback"} THEN t.checkpointNode ELSE t.endNode

\* The target handed to the engine call the orchestrator t awaits.
searchTo(t) == IF t.pc = "phase1" THEN t.checkpointNode ELSE t.endNode

\* The orchestrator t from the return of the awaited engine call, which
\* left the grid r.grid, to its next await: the grid and the locals then.
afterSearch(t, r) ==
  LET visited == r.frame.visitedNodesInOrder
  IN  CASE t.pc = "direct" ->
             [ grid |-> r.grid,
               task |-> [ t EXCEPT !.pc = "animatePath",
                                   !.visitedNodes = visited,
                                   !.pathNodes =
                                      getNodesInShortestPathOrder(r.grid, t.endNode) ] ]
        [] t.pc = "phase1" /\ ~r.grid[t.checkpointNode].isVisited ->
             [ grid |-> r.grid,
               task |-> [ t EXCEPT !.pc = "fallback",
                                   !.visitedNodesFirst = visited ] ]
        [] t.pc = "phase1" /\ r.grid[t.checkpointNode].isVisited ->
             [ grid |-> resetForPhase2(t.algorithm, r.grid),
               task |-> [ t EXCEPT !.pc = "phase2",
                                   !.visitedNodesFirst = visited,
                                   !.pathToCheckpoint =
                                      getNodesInShortestPathOrder(r.grid,
                                                                  t.checkpointNode) ] ]
        [] t.pc = "fallback" ->
             [ grid |-> r.grid,
               task |-> [ t EXCEPT !.pc = "animatePath",
                                   !.directPath = visited,
                                   !.pathNodes =
                                      getNodesInShortestPathOrder(r.grid, t.endNode) ] ]
        [] t.pc = "phase2" ->
             [ grid |-> r.grid,
               task |-> [ t EXCEPT !.pc = "animatePathToCheckpoint",
                                   !.visitedNodesSecond = visited ] ]

\* The awaited dijkstra / astar call of search i returns, and the
\* orchestrator goes on to its next await.
engineReturn(i) ==
  /\ searches[i].pc \in {"direct", "phase1", "fallback", "phase2"}
  /\ LET t == searches[i]
         g == IF t.detached THEN t.own ELSE grid
         r == engineRun(t.algorithm, g, searchFrom(t), searchTo(t))
         a == afterSearch(t, r)
     IN  IF t.detached
         THEN /\ grid' = grid
              /\ searches' = [searches EXCEPT ![i] = [a.task EXCEPT !.own = a.grid]]
         ELSE /\ grid' = a.grid
              /\ searches' = [searches EXCEPT ![i] = a.task]
  /\ UNCHANGED <<frame, board, state, mazes, ops>>

\* animatePath(pathToCheckpoint) of search i is over: the path to the end
\* is rebuilt from the grid as it is now, and animated.
pathToCheckpointAnimated(i) ==
  /\ searches[i].pc = "animatePathToCheckpoint"
  /\ LET t == searches[i]
         g == IF t.detached THEN t.own ELSE grid
     IN  searches' = [searches EXCEPT
                        ![i].pc = "animatePath",
                        ![i].pathToEnd = getNodesInShortestPathOrder(g, t.endNode)]
  /\ UNCHANGED <<grid, frame, board, state, mazes, ops>>

RemoveAt(seq, i) == SubSeq(seq, 1, i - 1) \o SubSeq(seq, i + 1, Len(seq))

\* Mutant: the orchestrator ending without its last setState.
searchFinish_NoSetState(i) ==
  /\ searches[i].pc = "animatePath"
  /\ state' = state
  /\ searches' = RemoveAt(searches, i)
  /\ UNCHANGED <<grid, frame, board, mazes, ops>>

\* The last animatePath of search i is over: the flags are reset.
searchFinish(i) ==
  /\ searches[i].pc = "animatePath"
  /\ state' = [state EXCEPT !.isRunning = FALSE, !.isVisualizing = FALSE]
  /\ searches' = RemoveAt(searches, i)
  /\ UNCHANGED <<grid, frame, board, mazes, ops>>

\* ------------------------------------------------- controller: the mazes
\* 'Recursive Division 1'.  The board handed to the generator has neither
\* wallsToAnimate nor nodes, and the region 2..height-3 is empty on a small
\* grid: the call ends in a TypeError after clearWalls and isVisualizing.
generateRecursiveMazeHandler ==
  /\ UserEvent
  /\ ~state.isVisualizing
  /\ grid' = clearWallsOf(grid)
  /\ state' = [state EXCEPT !.isVisualizing = TRUE]
  /\ UNCHANGED <<frame, board, searches, mazes>>

\* addInnerWalls(true, 1, cols - 2, 1, rows - 2) of OldRecursiveMaze: it
\* returns at once when maxX - minX < 2.
addInnerWalls(minX, maxX) ==
  CASE maxX - minX < 2 -> <<>>

\* generateRecursiveMaze of OldRecursiveMaze: the border cells in scan
\* order, the cells at the positions of the three nodes given left out.
generateOldRecursiveMaze(startNode, finishNode, checkpointNode) ==
  SelectSeq(getAllNodes(grid),
            LAMBDA c : /\ \/ c[1] = 0 \/ c[2] = 0
                          \/ c[1] = NumRows - 1 \/ c[2] = NumCols - 1
                       /\ c \notin {startNode, finishNode, checkpointNode})
    \o addInnerWalls(1, NumCols - 2)

\* 'Recursive Division 2'.  isVisualizing is tested but never set; the
\* nodes to spare are looked up at state.startNode, state.endNode and
\* state.checkpoint, and the lookup throws when one has no row and col.
generateOldRecursiveMazeHandler ==
  /\ UserEvent
  /\ ~state.isVisualizing
  /\ Len(mazes) < MaxTasks
  /\ grid' = clearWallsOf(grid)
  /\ IF Null \in {state.startNode, state.endNode, state.checkpoint.pos}
     THEN UNCHANGED mazes
     ELSE mazes' = Append(mazes,
            [ walls |-> generateOldRecursiveMaze(state.startNode, state.endNode,
                                                 state.checkpoint.pos),
              currentIndex |-> 0 ])
  /\ UNCHANGED <<frame, board, state, searches>>

\* One animation frame of animateWalls for maze i.
animateWallsFrame(i) ==
  /\ LET m  == mazes[i]
         n  == Len(m.walls)
         hi == IF m.currentIndex + maxUpdatesPerFrame < n
               THEN m.currentIndex + maxUpdatesPerFrame ELSE n
     IN  /\ grid' = [ c \in Cells |->
                        IF \E k \in (m.currentIndex + 1)..hi : m.walls[k] = c
                        THEN [ grid[c] EXCEPT !.isWall = TRUE ]
                        ELSE grid[c] ]
         /\ IF hi = n
            THEN /\ mazes' = RemoveAt(mazes, i)
                 /\ state' = IF n > 0
                             THEN [state EXCEPT !.isVisualizing = FALSE]
                             ELSE state
            ELSE /\ mazes' = [mazes EXCEPT ![i].currentIndex = hi]
                 /\ state' = state
  /\ UNCHANGED <<frame, board, searches, ops>>

CtlNext ==
  \/ \E cell \in Cells : handleMouseDown(cell)
  \/ \E cell \in Cells : handleMouseEnter(cell)
  \/ handleMouseUp
  \/ toggleBoostWall
  \/ \E cell \in Cells : handleDragStart(cell)
  \/ \E cell \in Cells : handleDrop(cell)
  \/ addCheckpoint
  \/ removeCheckpoint
  \/ randomizeNodes
  \/ resetGrid
  \/ clearWalls
  \/ visualizeDijkstra
  \/ visualizeAStar
  \/ \E i \in 1..Len(searches) : engineReturn(i)
  \/ \E i \in 1..Len(searches) : pathToCheckpointAnimated(i)
  \/ \E i \in 1..Len(searches) : searchFinish(i)
  \/ generateRecursiveMazeHandler
  \/ generateOldRecursiveMazeHandler
  \/ \E i \in 1..Len(mazes) : animateWallsFrame(i)

CtlSpec == CtlInit /\ [][CtlNext]_vars

\* ------------------------------------------ moveSpecialNode, called alone
\* moveSpecialNode(grid, sourceRow, sourceCol, targetRow, targetCol,
\* nodeType): the source node loses its three role flags, then the target
\* node gets the flag of nodeType.  Nothing else is read or written.
moveSpecialNode(g, source, target, nodeType) ==
  LET cleared == [g EXCEPT ![source].isStart = FALSE,
                           ![source].isEnd = FALSE,
                           ![source].isCheckpoint = FALSE]
  IN  CASE nodeType = "start" -> [cleared EXCEPT ![target].isStart = TRUE]
        [] nodeType = "end" -> [cleared EXCEPT ![target].isEnd = TRUE]
        [] nodeType = "checkpoint" -> [cleared EXCEPT ![target].isCheckpoint = TRUE]
        [] OTHER -> cleared

\* The role flag that nodeType names.
roleFlag(nodeType) ==
  CASE nodeType = "start" -> "isStart"
    [] nodeType = "end" -> "isEnd"
    [] nodeType = "checkpoint" -> "isCheckpoint"

\* A grid with walls drawn, start and end on two open cells, and a
\* checkpoint on a third or none.
MoveInit ==
  /\ \E W \in SUBSET Cells :
       \E s \in Cells \ W, e \in Cells \ W, c \in (Cells \ W) \cup {Null} :
         LET st == [initialState EXCEPT
                      !.startNode = s, !.endNode = e,
                      !.checkpoint = [ pos |-> c, exists |-> c # Null ]]
         IN  /\ Cardinality(W) <= MaxWalls
             /\ s # e /\ c \notin {s, e}
             /\ state = st
             /\ grid = [ d \in Cells |->
                          [ initializeGrid(st)[d] EXCEPT !.isWall = d \in W ] ]
  /\ frame = idleFrame
  /\ searches = <<>>
  /\ mazes = <<>>
  /\ ops = 0
  /\ board = noBoard

\* A call that moves the role nodeType from a node that holds it.
MoveSpecialNode(source, target, nodeType) ==
  /\ grid[source][roleFlag(nodeType)]
  /\ grid' = moveSpecialNode(grid, source, target, nodeType)
  /\ UNCHANGED <<frame, board, state, searches, mazes, ops>>

MoveNext ==
  \E source \in Cells, target \in Cells,
     nodeType \in {"start", "end", "checkpoint"} :
    MoveSpecialNode(source, target, nodeType)

MoveSpec == MoveInit /\ [][MoveNext]_vars

\* ------------------------------------- the orchestrators, one run, alone
\* A grid the gestures before have arranged: walls drawn, a checkpoint
\* added, start and checkpoint where randomizeNodes or a drag can put them
\* (on any cell without a wall, the same cell included), the end at its
\* default position.  One gesture is left, and nothing but the search it
\* starts acts on the grid.
VisInit ==
  /\ \E W \in SUBSET (Cells \ {defaultEndNode}) :
       \E s \in Cells \ W, c \in Cells \ W :
         LET st == [initialState EXCEPT
                      !.startNode = s,
                      !.checkpoint = [ pos |-> c, exists |-> TRUE ]]
         IN  /\ Cardinality(W) <= MaxWalls
             /\ state = st
             /\ grid = [ d \in Cells |->
                          [ initializeGrid(st)[d] EXCEPT !.isWall = d \in W ] ]
  /\ frame = idleFrame
  /\ searches = <<>>
  /\ mazes = <<>>
  /\ ops = MaxOps - 1
  /\ board = noBoard

VisNext ==
  \/ visualizeDijkstra
  \/ visualizeAStar
  \/ \E i \in 1..Len(searches) : engineReturn(i)
  \/ \E i \in 1..Len(searches) : pathToCheckpointAnimated(i)
  \/ \E i \in 1..Len(searches) : searchFinish(i)

VisSpec == VisInit /\ [][VisNext]_vars

\* The searches from every grid the scan of visualizeDijkstra can meet: with
\* or without a checkpoint, and with the Start or the End missing (lost to a
\* drop).
VisLiveInit ==
  /\ \E W \in SUBSET (Cells \ {defaultEndNode}) :
       \E s \in Cells \ W, c \in Cells \ W, exists \in BOOLEAN,
          missing \in {"none", "isStart", "isEnd"} :
         LET st == [initialState EXCEPT
                      !.startNode = s,
                      !.checkpoint = [ pos |-> c, exists |-> exists ]]
         IN  /\ Cardinality(W) <= MaxWalls
             /\ state = st
             /\ grid = [ d \in Cells |->
                          [ initializeGrid(st)[d] EXCEPT
                              !.isWall = d \in W,
                              !.isStart = @ /\ missing # "isStart",
                              !.isEnd = @ /\ missing # "isEnd" ] ]
  /\ frame = idleFrame
  /\ searches = <<>>
  /\ mazes = <<>>
  /\ ops = MaxOps - 2
  /\ board = noBoard

\* What a search awaits is a timer or a call that ends in timers, so every
\* await returns: weak fairness of the three steps of a search.  For
\* engineReturn it is written out, with the guard of the action (the search
\* awaits an engine call, and the return changes its pc) where
\* WF_vars has ENABLED.
VisLiveSpec ==
  /\ VisLiveInit
  /\ [][VisNext]_vars
  /\ \/ []<>~(\E i \in 1..Len(searches) :
                searches[i].pc \in {"direct", "phase1", "fallback", "phase2"})
     \/ []<><<\E i \in 1..Len(searches) : engineReturn(i)>>_vars
  /\ WF_vars(\E i \in 1..Len(searches) : pathToCheckpointAnimated(i))
  /\ WF_vars(\E i \in 1..Len(searches) : searchFinish(i))

\* --------------------------------------------- one engine call after another
\* A search engine called on the grid as the calls before it left it, under
\* either kind of speed, and run to its return.
engineCall(algorithm, speed, g, startNode, finishNode) ==
  IF speed = "instant"
  THEN IF algorithm = "dijkstra"
       THEN dijkstraInstant(g, startNode, finishNode)
       ELSE astarInstant(g, startNode, finishNode)
  ELSE engineRun(algorithm, g, startNode, finishNode)

RunEngine(algorithm, startNode, finishNode) ==
  /\ ops < MaxRuns
  /\ ops' = ops + 1
  /\ LET r == engineCall(algorithm, "fast", grid, startNode, finishNode)
     IN  grid' = r.grid /\ frame' = r.frame
  /\ UNCHANGED <<state, searches, mazes, board>>

RunNext ==
  \E algorithm \in {"dijkstra", "astar"}, s \in Cells, t \in Cells :
    RunEngine(algorithm, s, t)

RunSpec == Init /\ [][RunNext]_vars

\* ------------------------------------ astar on a grid searched before
\* The grid as an earlier call of an engine left it, and a call of astar on
\* it, iteration by iteration.
SecondCallInit ==
  /\ \E W \in SUBSET Cells, algorithm \in {"dijkstra", "astar"},
        s \in Cells, t \in Cells :
       /\ Cardinality(W) <= MaxWalls
       /\ grid = engineRun(algorithm, gridWithWalls(W), s, t).grid
  /\ frame = idleFrame
  /\ state = initialState
  /\ searches = <<>>
  /\ mazes = <<>>
  /\ ops = 0
  /\ board = noBoard

SecondCallNext ==
  \/ \E s \in Cells, t \in Cells : CallAstar(s, t)
  \/ AstarLoop

SecondCallSpec == SecondCallInit /\ [][SecondCallNext]_vars

\* ------------------------------------------------------ maze generators
\* The generators work on a board object: height, width, the ids of start,
\* target and object (the checkpoint, or null), nodes[id].status and the
\* list wallsToAnimate.  An id 'row-col' is the cell <<row, col>>.
BoardCells == (0..(BoardHeight - 1)) \X (0..(BoardWidth - 1))

\* The cells in the order of the loops over row and col.
boardScan ==
  [ i \in 1..(BoardHeight * BoardWidth) |->
      << (i - 1) \div BoardWidth, (i - 1) % BoardWidth >> ]

\* The board the controller hands over for a grid without walls; calls is
\* the stack of generateRecursiveMaze calls not yet run.
newBoard(start, target, object) ==
  [ generator |-> "none", start |-> start, target |-> target, object |-> object,
    status |-> [ c \in BoardCells |-> "unvisited" ],
    wallsToAnimate |-> <<>>, calls |-> <<>> ]

\* isSpecialNode of the random generators, and the test spelled out in
\* generateRecursiveMaze.
isSpecialNode(b, node) ==
  node = b.start \/ node = b.target \/ (b.object # Null /\ node = b.object)

\* isSpecialNode of the stair generator: start and target only.
isSpecialNodeOfStair(b, node) == node = b.start \/ node = b.target

\* status = 'wall' and a push to wallsToAnimate for every node of the
\* sequence, in its order.
pushWalls(b, nodes) ==
  [ b EXCEPT !.status = [ c \in DOMAIN b.status |->
                            IF \E i \in 1..Len(nodes) : nodes[i] = c
                            THEN "wall" ELSE @[c] ],
             !.wallsToAnimate = @ \o nodes ]

borderNodes ==
  SelectSeq(boardScan,
            LAMBDA c : \/ c[1] = 0 \/ c[2] = 0
                       \/ c[1] = BoardHeight - 1 \/ c[2] = BoardWidth - 1)

\* The rows (orientation horizontal) or columns a call can put its wall on:
\* every second one from the first of the region.
possibleLines(call) ==
  IF call.orientation = "horizontal"
  THEN { r \in call.rowStart..call.rowEnd : (r - call.rowStart) % 2 = 0 }
  ELSE { c \in call.colStart..call.colEnd : (c - call.colStart) % 2 = 0 }

\* The positions the passage can be drawn at.
possiblePassages(call) ==
  IF call.orientation = "horizontal"
  THEN call.colStart..call.colEnd
  ELSE call.rowStart..call.rowEnd

recursiveCall(rowStart, rowEnd, colStart, colEnd, orientation) ==
  [ rowStart |-> rowStart, rowEnd |-> rowEnd,
    colStart |-> colStart, colEnd |-> colEnd, orientation |-> orientation ]

\* Mutant: the region below the wall starts on the wall's own row.
divide_BelowFromLine(b, line, passage) ==
  LET call == Head(b.calls)
      rowStart == call.rowStart
      rowEnd == call.rowEnd
      colStart == call.colStart
      colEnd == call.colEnd
  IN  IF call.orientation = "horizontal"
      THEN
        LET nodes == [ i \in 1..(colEnd - colStart + 1) |-> <<line, colStart + i - 1>> ]
            walls == SelectSeq(nodes, LAMBDA n : n[2] # passage /\ ~isSpecialNode(b, n))
            above == recursiveCall(rowStart, line - 2, colStart, colEnd,
                       IF line - 2 - rowStart > colEnd - colStart
                       THEN "horizontal" ELSE "vertical")
            below == recursiveCall(line, rowEnd, colStart, colEnd,
                       IF rowEnd - (line + 2) > colEnd - colStart
                       THEN "horizontal" ELSE "vertical")
        IN  [ pushWalls(b, walls) EXCEPT !.calls = <<above, below>> \o Tail(b.calls) ]
      ELSE
        LET nodes == [ i \in 1..(rowEnd - rowStart + 1) |-> <<rowStart + i - 1, line>> ]
            walls == SelectSeq(nodes, LAMBDA n : n[1] # passage /\ ~isSpecialNode(b, n))
            left  == recursiveCall(rowStart, rowEnd, colStart, line - 2,
                       IF rowEnd - rowStart > line - 2 - colStart
                       THEN "horizontal" ELSE "vertical")
            right == recursiveCall(rowStart, rowEnd, line + 2, colEnd,
                       IF rowEnd - rowStart > colEnd - (line + 2)
                       THEN "horizontal" ELSE "vertical")
        IN  [ pushWalls(b, walls) EXCEPT !.calls = <<left, right>> \o Tail(b.calls) ]

\* The body of generateRecursiveMaze for the call on top of the stack, the
\* wall on line `line` with its passage at `passage`: the wall is written,
\* and the two recursive calls take the place of the call.
divide(b, line, passage) ==
  LET call == Head(b.calls)
      rowStart == call.rowStart
      rowEnd == call.rowEnd
      colStart == call.colStart
      colEnd == call.colEnd
  IN  IF call.orientation = "horizontal"
      THEN
        LET nodes == [ i \in 1..(colEnd - colStart + 1) |-> <<line, colStart + i - 1>> ]
            walls == SelectSeq(nodes, LAMBDA n : n[2] # passage /\ ~isSpecialNode(b, n))
            above == recursiveCall(rowStart, line - 2, colStart, colEnd,
                       IF line - 2 - rowStart > colEnd - colStart
                       THEN "horizontal" ELSE "vertical")
            below == recursiveCall(line + 2, rowEnd, colStart, colEnd,
                       IF rowEnd - (line + 2) > colEnd - colStart
                       THEN "horizontal" ELSE "vertical")
        IN  [ pushWalls(b, walls) EXCEPT !.calls = <<above, below>> \o Tail(b.calls) ]
      ELSE
        LET nodes == [ i \in 1..(rowEnd - rowStart + 1) |-> <<rowStart + i - 1, line>> ]
            walls == SelectSeq(nodes, LAMBDA n : n[1] # passage /\ ~isSpecialNode(b, n))
            left  == recursiveCall(rowStart, rowEnd, colStart, line - 2,
                       IF rowEnd - rowStart > line - 2 - colStart
                       THEN "horizontal" ELSE "vertical")
            right == recursiveCall(rowStart, rowEnd, line + 2, colEnd,
                       IF rowEnd - rowStart > colEnd - (line + 2)
                       THEN "horizontal" ELSE "vertical")
        IN  [ pushWalls(b, walls) EXCEPT !.calls = <<left, right>> \o Tail(b.calls) ]

\* Mutant: the vertical line one column further right.
RECURSIVE stairSteps_VerticalAtStep(_, _, _)
stairSteps_VerticalAtStep(b, currentRow, currentCol) ==
  LET height == heightOf(b.status)
      width == widthOf(b.status)
  IN
  IF ~(currentRow < height - 2 /\ currentCol < width - 2) THEN b
  ELSE
    LET min(x, y) == IF x < y THEN x ELSE y
        cEnd == min(currentCol + 3, width - 2)
        rEnd == min(currentRow + 3, height - 2)
        horizontal == [ i \in 1..(cEnd - currentCol) |-> <<currentRow, currentCol + i - 1>> ]
        vertical == [ i \in 1..(rEnd - currentRow) |-> <<currentRow + i - 1, currentCol + 3>> ]
        b1 == pushWalls(b, SelectSeq(horizontal, LAMBDA n : ~isSpecialNodeOfStair(b, n)))
        b2 == pushWalls(b1, SelectSeq(vertical, LAMBDA n : ~isSpecialNodeOfStair(b, n)))
    IN  stairSteps_VerticalAtStep(b2, currentRow + 3, currentCol + 3)

\* stairMaze: the steps of the while loop from (currentRow, currentCol) on;
\* height and width are those of the board.
RECURSIVE stairSteps(_, _, _)
stairSteps(b, currentRow, currentCol) ==
  LET height == heightOf(b.status)
      width == widthOf(b.status)
  IN
  IF ~(currentRow < height - 2 /\ currentCol < width - 2) THEN b
  ELSE
    LET min(x, y) == IF x < y THEN x ELSE y
        cEnd == min(currentCol + 3, width - 2)
        rEnd == min(currentRow + 3, height - 2)
        horizontal == [ i \in 1..(cEnd - currentCol) |-> <<currentRow, currentCol + i - 1>> ]
        vertical == [ i \in 1..(rEnd - currentRow) |-> <<currentRow + i - 1, currentCol + 3 - 1>> ]
        b1 == pushWalls(b, SelectSeq(horizontal, LAMBDA n : ~isSpecialNodeOfStair(b, n)))
        b2 == pushWalls(b1, SelectSeq(vertical, LAMBDA n : ~isSpecialNodeOfStair(b, n)))
    IN  stairSteps(b2, currentRow + 3, currentCol + 3)

\* addBorder of the stair generator; what it pushes is the element of the
\* node, written here as the node.
addBorderOfStair(b) ==
  LET height == heightOf(b.status)
      width == widthOf(b.status)
      border == SelectSeq(getAllNodes(b.status),
                          LAMBDA c : \/ c[1] = 0 \/ c[2] = 0
                                     \/ c[1] = height - 1 \/ c[2] = width - 1)
  IN  pushWalls(b, SelectSeq(border, LAMBDA n : ~isSpecialNodeOfStair(b, n)))

stairMaze(b) == addBorderOfStair(stairSteps(b, 2, 2))

\* ------------------------------------------- the two random generators
\* What Math.random() decides is an argument of the operators below; the
\* bounds limit how often a test Math.random() < p that builds a wall
\* comes out true in one call.
RECURSIVE SubsetsUpTo(_, _)
SubsetsUpTo(S, k) ==
  IF k = 0 THEN { {} }
  ELSE LET smaller == SubsetsUpTo(S, k - 1)
       IN  smaller \cup { T \cup {x} : T \in smaller, x \in S }

inBoard(c) ==
  c[1] >= 0 /\ c[1] < BoardHeight /\ c[2] >= 0 /\ c[2] < BoardWidth

\* The index of the first entry of list equal to node, 0 when there is none.
findIndex(list, node) ==
  IF \E i \in 1..Len(list) : list[i] = node
  THEN CHOOSE i \in 1..Len(list) :
         list[i] = node /\ \A j \in 1..(i - 1) : list[j] # node
  ELSE 0

\* findIndex and splice(index, 1).
spliceFirst(list, node) ==
  IF findIndex(list, node) = 0 THEN list ELSE RemoveAt(list, findIndex(list, node))

\* The nodes the loops i, j = -2..2 around specialNode reach and reset.
around(b, specialNode) ==
  SelectSeq([ k \in 1..25 |-> << specialNode[1] + ((k - 1) \div 5) - 2,
                                 specialNode[2] + ((k - 1) % 5) - 2 >> ],
            LAMBDA n : inBoard(n) /\ ~isSpecialNode(b, n))

\* status = 'unvisited' for the nodes of the sequence, each taken out of
\* wallsToAnimate once where splice says so.
RECURSIVE clearNodes(_, _, _)
clearNodes(b, nodes, splice) ==
  IF nodes = <<>> THEN b
  ELSE clearNodes([ b EXCEPT !.status[Head(nodes)] = "unvisited",
                             !.wallsToAnimate =
                                IF splice THEN spliceFirst(@, Head(nodes)) ELSE @ ],
                  Tail(nodes), splice)

\* addBorder of the basic random generator.
addBorder(b) ==
  pushWalls(b, SelectSeq(borderNodes, LAMBDA n : ~isSpecialNode(b, n)))

\* The nodes of the loops row, col = 2, 4, ... below height - 2, width - 2.
checkerNodes ==
  SelectSeq(boardScan,
            LAMBDA c : /\ c[1] >= 2 /\ c[1] < BoardHeight - 2 /\ c[1] % 2 = 0
                       /\ c[2] >= 2 /\ c[2] < BoardWidth - 2 /\ c[2] % 2 = 0)

directions == { <<0, 1>>, <<0, -1>>, <<1, 0>>, <<-1, 0>> }

\* The first numExtensions (1 or 2) entries of the shuffled directions.
extensionChoices ==
  { <<d>> : d \in directions }
    \cup { p \in directions \X directions : p[1] # p[2] }

\* The walls of the checkerboard loop, in the order they are pushed;
\* extensions[node] is defined for the nodes whose density test passed.
RECURSIVE checkerWalls(_, _, _)
checkerWalls(b, extensions, nodes) ==
  IF nodes = <<>> THEN <<>>
  ELSE
    LET node == Head(nodes)
        ext  == extensions[node]
        extended == [ i \in 1..Len(ext) |->
                        << node[1] + ext[i][1], node[2] + ext[i][2] >> ]
    IN  (IF node \in DOMAIN extensions
         THEN <<node>> \o SelectSeq(extended, LAMBDA n : ~isSpecialNode(b, n))
         ELSE <<>>)
        \o checkerWalls(b, extensions, Tail(nodes))

generateBasicRandomMaze(b, extensions) ==
  LET bordered == addBorder(b)
      walled   == pushWalls(bordered, checkerWalls(b, extensions, checkerNodes))
  IN  clearNodes(walled, around(b, b.start) \o around(b, b.target), TRUE)

\* clearAroundSpecialNodes of the density generator: no splice.
clearAroundSpecialNodes(b) ==
  clearNodes(b,
             around(b, b.start) \o around(b, b.target)
               \o (IF b.object # Null THEN around(b, b.object) ELSE <<>>),
             FALSE)

\* The count of the second pass: the neighbours of node, diagonals
\* included, that are walls; a neighbour off the board is undefined.
adjacentWalls(b, node) ==
  Cardinality({ n \in BoardCells :
                  /\ n # node
                  /\ Abs(n[1] - node[1]) <= 1 /\ Abs(n[2] - node[2]) <= 1
                  /\ b.status[n] = "wall" })

\* The nodes of the second pass, rows 1..height-2 and columns 1..width-2.
innerNodes ==
  SelectSeq(boardScan,
            LAMBDA c : /\ c[1] >= 1 /\ c[1] < BoardHeight - 1
                       /\ c[2] >= 1 /\ c[2] < BoardWidth - 1)

\* The boards the second pass can leave from its i-th node on, with at
\* most `budget` cluster tests coming out true.
RECURSIVE clusterPass(_, _, _)
clusterPass(b, i, budget) ==
  IF i > Len(innerNodes) THEN {b}
  ELSE
    LET node == innerNodes[i]
    IN  IF ~isSpecialNode(b, node) /\ adjacentWalls(b, node) >= 2 /\ budget > 0
        THEN clusterPass(b, i + 1, budget)
               \cup clusterPass(pushWalls(b, <<node>>), i + 1, budget - 1)
        ELSE clusterPass(b, i + 1, budget)

\* The nodes of the third pass, rows and columns 0, 2, 4, ...
evenNodes == SelectSeq(boardScan, LAMBDA c : c[1] % 2 = 0 /\ c[2] % 2 = 0)

\* generateRandomMaze up to its second pass: every node unvisited, then the
\* nodes of firstWalls made walls.
firstPass(b, firstWalls) ==
  pushWalls([ b EXCEPT !.status = [ c \in BoardCells |->
                                      IF isSpecialNode(b, c) THEN @[c]
                                      ELSE "unvisited" ] ],
            SelectSeq(boardScan, LAMBDA c : c \in firstWalls))

\* generateRandomMaze from its third pass on: the nodes of cleared reset
\* and spliced, then the surroundings of the special nodes reset.
thirdPass(b, cleared) ==
  clearAroundSpecialNodes(
    clearNodes(b, SelectSeq(evenNodes, LAMBDA c : c \in cleared), TRUE))

\* A board for a grid without walls: start and target on two cells, the
\* object on a third or absent.
MazeInit ==
  /\ \E start \in StartCells, target \in TargetCells,
        object \in ObjectCells \cup {Null} :
       /\ start # target /\ object \notin {start, target}
       /\ board = newBoard(start, target, object)
  /\ grid = initializeGrid(initialState)
  /\ frame = idleFrame
  /\ state = initialState
  /\ searches = <<>>
  /\ mazes = <<>>
  /\ ops = 0

\* generateRecursiveMaze(board, 2, rowEnd, 2, colEnd, 'horizontal',
\* surroundingWalls, 'wall'), to its first division: the border, unless
\* surroundingWalls says it is there.
GenerateRecursiveMaze(rowEnd, colEnd, surroundingWalls) ==
  /\ board.generator = "none"
  /\ LET b == IF surroundingWalls THEN board
              ELSE pushWalls(board,
                     SelectSeq(borderNodes, LAMBDA n : ~isSpecialNode(board, n)))
     IN  board' = [ b EXCEPT
                      !.generator = "recursive",
                      !.calls = << recursiveCall(2, rowEnd, 2, colEnd, "horizontal") >> ]
  /\ UNCHANGED <<grid, frame, state, searches, mazes, ops>>

\* The next call of generateRecursiveMaze: it returns on an empty region,
\* else it draws a line and a passage and divides.
RecursiveCall ==
  /\ board.generator = "recursive"
  /\ board.calls # <<>>
  /\ LET call == Head(board.calls)
     IN  IF call.rowEnd < call.rowStart \/ call.colEnd < call.colStart
         THEN board' = [ board EXCEPT !.calls = Tail(@) ]
         ELSE \E line \in possibleLines(call), passage \in possiblePassages(call) :
                board' = divide(board, line, passage)
  /\ UNCHANGED <<grid, frame, state, searches, mazes, ops>>

StairMaze ==
  /\ board.generator = "none"
  /\ board' = [ stairMaze(board) EXCEPT !.generator = "stair" ]
  /\ UNCHANGED <<grid, frame, state, searches, mazes, ops>>

\* generateBasicRandomMaze(board), for every outcome of its random tests
\* within the bound.
GenerateBasicRandomMaze ==
  /\ board.generator = "none"
  /\ \E chosen \in SubsetsUpTo({ n \in SeqToSet(checkerNodes) :
                                  ~isSpecialNode(board, n) }, MaxRandomWalls) :
       \E extensions \in [ chosen -> extensionChoices ] :
         board' = [ generateBasicRandomMaze(board, extensions)
                      EXCEPT !.generator = "basicRandom" ]
  /\ UNCHANGED <<grid, frame, state, searches, mazes, ops>>

\* generateRandomMaze(board), likewise.  A third-pass test that comes out
\* true on a node that is neither a wall nor in wallsToAnimate changes
\* nothing, so the nodes that are one or the other are the ones drawn.
GenerateRandomMaze ==
  /\ board.generator = "none"
  /\ \E firstWalls \in SubsetsUpTo({ n \in BoardCells : ~isSpecialNode(board, n) },
                                  MaxRandomWalls) :
       \E clustered \in clusterPass(firstPass(board, firstWalls), 1, MaxClusterWalls) :
         \E cleared \in SUBSET { n \in SeqToSet(evenNodes) :
                                  /\ ~isSpecialNode(board, n)
                                  /\ \/ clustered.status[n] = "wall"
                                     \/ findIndex(clustered.wallsToAnimate, n) # 0 } :
           board' = [ thirdPass(clustered, cleared) EXCEPT !.generator = "random" ]
  /\ UNCHANGED <<grid, frame, state, searches, mazes, ops>>

\* The controller's calls of recursive division: rows 2..height-3 and
\* columns 2..width-3 with the border said to be there, and rows 2..30 and
\* columns 2..73 of a 32 x 75 board (2..height-2, 2..width-2) with the border
\* to build.
MazeNext ==
  \/ GenerateRecursiveMaze(BoardHeight - 3, BoardWidth - 3, TRUE)
  \/ GenerateRecursiveMaze(BoardHeight - 2, BoardWidth - 2, FALSE)
  \/ RecursiveCall
  \/ StairMaze
  \/ GenerateBasicRandomMaze
  \/ GenerateRandomMaze

MazeSpec == MazeInit /\ [][MazeNext]_vars

\* Recursive division alone, on every non-empty region from (2, 2) inside the
\* border.  The recursion is synchronous code: a pending call is always run.
DivisionNext ==
  \/ \E rowEnd \in 2..(BoardHeight - 2), colEnd \in 2..(BoardWidth - 2),
        surroundingWalls \in BOOLEAN :
       GenerateRecursiveMaze(rowEnd, colEnd, surroundingWalls)
  \/ RecursiveCall

DivisionSpec == MazeInit /\ [][DivisionNext]_vars /\ WF_vars(RecursiveCall)

\* The stair generator alone, on boards of every height and width from 3 to
\* MaxStairSize, start and target on the stair, on the border or off both.
StairSpecials == { <<0, 0>>, <<1, 1>>, <<2, 2>>, <<2, 3>>, <<3, 4>>, <<5, 5>>, <<5, 7>> }

StairInit ==
  /\ \E height \in 3..MaxStairSize, width \in 3..MaxStairSize :
       LET cells == (0..(height - 1)) \X (0..(width - 1))
       IN  \E start \in StairSpecials \cap cells, target \in StairSpecials \cap cells :
             /\ start # target
             /\ board = [ newBoard(start, target, Null) EXCEPT
                            !.status = [ c \in cells |-> "unvisited" ] ]
  /\ grid = initializeGrid(initialState)
  /\ frame = idleFrame
  /\ state = initialState
  /\ searches = <<>>
  /\ mazes = <<>>
  /\ ops = 0

StairSpec == StairInit /\ [][StairMaze]_vars

\* ------------------------------- recursive division of OldRecursiveMaze
\* generateRecursiveMaze(grid, startNode, finishNode, checkpointNode) on a
\* grid of BoardHeight rows and BoardWidth columns.  The board holds the
\* three nodes as start, target and object, the calls of addInnerWalls not
\* yet run, and the list walls as the set of its elements (status 'wall'):
\* the list itself has no bound in a run that does not end.

\* randomNumber(min, max): the values Math.floor(Math.random() * (max - min
\* + 1) + min) can take, Math.random() in [0, 1).
randomNumber(min, max) == IF min <= max THEN min..max ELSE (max + 1)..min

\* Math.floor(randomNumber(min, max) / 2) * 2: the lines a wall can be on.
\* \div rounds down, as Math.floor does.
wallLines(min, max) == { (n \div 2) * 2 : n \in randomNumber(min, max) }

\* Math.floor(randomNumber(min, max) / 2) * 2 + 1: the holes of a wall.
holes(min, max) == { (n \div 2) * 2 + 1 : n \in randomNumber(min, max) }

\* addHorizontalWall(minX, maxX, y) with its hole drawn.
addHorizontalWall(b, minX, maxX, y, hole) ==
  LET cells == [ i \in 1..(maxX - minX + 1) |-> <<y, minX + i - 1>> ]
      walls == SelectSeq(cells, LAMBDA n : n[2] # hole /\ ~isSpecialNode(b, n))
  IN  [ b EXCEPT !.status = [ c \in DOMAIN b.status |->
                                IF \E i \in 1..Len(walls) : walls[i] = c
                                THEN "wall" ELSE @[c] ] ]

\* addVerticalWall(minY, maxY, x) with its hole drawn.
addVerticalWall(b, minY, maxY, x, hole) ==
  LET cells == [ i \in 1..(maxY - minY + 1) |-> <<minY + i - 1, x>> ]
      walls == SelectSeq(cells, LAMBDA n : n[1] # hole /\ ~isSpecialNode(b, n))
  IN  [ b EXCEPT !.status = [ c \in DOMAIN b.status |->
                                IF \E i \in 1..Len(walls) : walls[i] = c
                                THEN "wall" ELSE @[c] ] ]

innerCall(h, minX, maxX, minY, maxY) ==
  [ h |-> h, minX |-> minX, maxX |-> maxX, minY |-> minY, maxY |-> maxY ]

\* addInnerWalls returns at its first test.
innerReturns(call) ==
  IF call.h THEN call.maxX - call.minX < 2 ELSE call.maxY - call.minY < 2

\* The lines the call can draw its wall on.
innerLines(call) ==
  IF call.h THEN wallLines(call.minY, call.maxY) ELSE wallLines(call.minX, call.maxX)

\* The holes the wall of the call can have.
innerHoles(call) ==
  IF call.h THEN holes(call.minX, call.maxX) ELSE holes(call.minY, call.maxY)

\* The body of addInnerWalls for the call on top of the stack past its
\* first test, the wall on line `line` with its hole at `hole`: the wall is
\* written, and the two recursive calls take the place of the call.
addInnerWallsOf(b, line, hole) ==
  LET call == Head(b.calls)
  IN  IF call.h
      THEN [ addHorizontalWall(b, call.minX, call.maxX, line, hole) EXCEPT
               !.calls = << innerCall(FALSE, call.minX, call.maxX, call.minY, line - 1),
                            innerCall(FALSE, call.minX, call.maxX, line + 1, call.maxY) >>
                         \o Tail(b.calls) ]
      ELSE [ addVerticalWall(b, call.minY, call.maxY, line, hole) EXCEPT
               !.calls = << innerCall(TRUE, call.minX, line - 1, call.minY, call.maxY),
                            innerCall(TRUE, line + 1, call.maxX, call.minY, call.maxY) >>
                         \o Tail(b.calls) ]

\* generateRecursiveMaze of OldRecursiveMaze to its first call of
\* addInnerWalls: the border.
GenerateOldRecursiveMaze ==
  /\ board.generator = "none"
  /\ LET b == pushWalls(board,
                SelectSeq(borderNodes, LAMBDA n : ~isSpecialNode(board, n)))
     IN  board' = [ b EXCEPT
                      !.generator = "oldRecursive",
                      !.wallsToAnimate = <<>>,
                      !.calls = << innerCall(TRUE, 1, BoardWidth - 2,
                                             1, BoardHeight - 2) >> ]
  /\ UNCHANGED <<grid, frame, state, searches, mazes, ops>>

\* The next call of addInnerWalls.
AddInnerWalls ==
  /\ board.generator = "oldRecursive"
  /\ board.calls # <<>>
  /\ LET call == Head(board.calls)
     IN  IF innerReturns(call)
         THEN board' = [ board EXCEPT !.calls = Tail(@) ]
         ELSE \E line \in innerLines(call), hole \in innerHoles(call) :
                board' = addInnerWallsOf(board, line, hole)
  /\ UNCHANGED <<grid, frame, state, searches, mazes, ops>>

OldDivisionNext == GenerateOldRecursiveMaze \/ AddInnerWalls

\* The recursion is synchronous code: a pending call is always run.
OldDivisionSpec == MazeInit /\ [][OldDivisionNext]_vars /\ WF_vars(AddInnerWalls)

\* ---------------------------------------- reference notions of the claims
Adjacent(a, b) == Abs(a[1] - b[1]) + Abs(a[2] - b[2]) = 1

OpenCells(g) == { c \in Cells : ~g[c].isWall }

\* One more ring of non-wall cells around the set S.
Grow(g, S) ==
  S \cup { c \in UNION { SeqToSet(neighborsOf(d, g)) : d \in S } : ~g[c].isWall }

RECURSIVE Closure(_, _)
Closure(g, S) ==
  LET T == Grow(g, S) IN IF T = S THEN S ELSE Closure(g, T)

\* The non-wall cells joined to s by 4-adjacent non-wall cells.
Component(g, s) == IF g[s].isWall THEN {} ELSE Closure(g, {s})

Reachable(g, s, t) == t \in Component(g, s)

RECURSIVE RingOf(_, _, _, _)
RingOf(g, S, t, k) ==
  LET T == Grow(g, S)
  IN  IF t \in S THEN k
      ELSE IF T = S THEN Infinity
      ELSE RingOf(g, T, t, k + 1)

\* Breadth-first (unit-cost) distance from s to t, Infinity when there is none.
UnitDistance(g, s, t) == IF g[s].isWall THEN Infinity ELSE RingOf(g, {s}, t, 0)

Returned(algorithm) == frame.pc = "returned" /\ frame.algorithm = algorithm

PathOfFrame == getNodesInShortestPathOrder(grid, frame.finishNode)

\* A path of 4-adjacent non-wall cells.
IsOpenWalk(g, path) ==
  /\ \A i \in 1..Len(path) : ~g[path[i]].isWall
  /\ \A i \in 1..(Len(path) - 1) : Adjacent(path[i], path[i + 1])

\* ---------------------------------------------------------------- claims

\* C1: when the target is reachable from the start through 4-adjacent
\* non-wall cells, then after dijkstra returns the previousNode chain from
\* the target ends at the start and has exactly d + 1 nodes, d the
\* breadth-first distance from start to target.
C1_DijkstraShortestPath ==
  (Returned("dijkstra") /\ Reachable(grid, frame.startNode, frame.finishNode))
    => /\ PathOfFrame # <<>>
       /\ Head(PathOfFrame) = frame.startNode
       /\ Len(PathOfFrame) =
            UnitDistance(grid, frame.startNode, frame.finishNode) + 1

\* C1 witness: dijkstra has returned a path that walls force to be longer
\* than the Manhattan distance.
C1_Witness ==
  /\ Returned("dijkstra")
  /\ Reachable(grid, frame.startNode, frame.finishNode)
  /\ Len(PathOfFrame) >
       manhattanDistance(frame.startNode, frame.finishNode) + 1

\* C2: for a reachable target the path reconstructed after astar has as many
\* nodes as the path reconstructed after dijkstra on the same grid, start and
\* target, and both have the breadth-first distance plus one.
C2_AstarMatchesDijkstra ==
  (Returned("astar") /\ Reachable(grid, frame.startNode, frame.finishNode))
    => LET d == dijkstra(grid, frame.startNode, frame.finishNode)
       IN  /\ Len(PathOfFrame) =
                Len(getNodesInShortestPathOrder(d.grid, frame.finishNode))
           /\ Len(PathOfFrame) =
                UnitDistance(grid, frame.startNode, frame.finishNode) + 1

\* C2 witness: astar has returned a path around walls.
C2_Witness ==
  /\ Returned("astar")
  /\ Reachable(grid, frame.startNode, frame.finishNode)
  /\ Len(PathOfFrame) >
       manhattanDistance(frame.startNode, frame.finishNode) + 1

\* C3: for a reachable target, after either engine returns, the
\* reconstructed path starts at the start node, ends at the target, joins
\* 4-adjacent cells and holds no wall.
C3_PathIsWalk ==
  (frame.pc = "returned" /\ Reachable(grid, frame.startNode, frame.finishNode))
    => /\ PathOfFrame # <<>>
       /\ PathOfFrame[1] = frame.startNode
       /\ PathOfFrame[Len(PathOfFrame)] = frame.finishNode
       /\ IsOpenWalk(grid, PathOfFrame)

\* C3 witness: an engine has returned a path of at least three nodes on a
\* grid that has walls.
C3_Witness ==
  /\ frame.pc = "returned"
  /\ Reachable(grid, frame.startNode, frame.finishNode)
  /\ Len(PathOfFrame) >= 3
  /\ OpenCells(grid) # Cells

\* C4: after dijkstra or astar returns, the target is marked visited exactly
\* when it is reachable from the start through 4-adjacent non-wall cells.
C4_VisitedIffReachable ==
  frame.pc = "returned"
    => (grid[frame.finishNode].isVisited
          <=> Reachable(grid, frame.startNode, frame.finishNode))

\* C4 witness: an engine has returned with a non-wall target left unvisited
\* after finalizing other nodes.
C4_Witness ==
  /\ frame.pc = "returned"
  /\ ~grid[frame.finishNode].isWall
  /\ ~grid[frame.finishNode].isVisited
  /\ Len(frame.visitedNodesInOrder) >= 2

\* C5: for an unreachable target the returned visited-order holds exactly the
\* non-wall cells reachable from the start, each of them once.
C5_UnreachableVisitsComponent ==
  (frame.pc = "returned" /\ ~Reachable(grid, frame.startNode, frame.finishNode))
    => /\ SeqToSet(frame.visitedNodesInOrder) = Component(grid, frame.startNode)
       /\ Len(frame.visitedNodesInOrder) =
            Cardinality(Component(grid, frame.startNode))

\* C5 witness: an engine has returned from a search for a walled-off target
\* after visiting a component of several cells.
C5_Witness ==
  /\ frame.pc = "returned"
  /\ ~grid[frame.finishNode].isWall
  /\ ~Reachable(grid, frame.startNode, frame.finishNode)
  /\ Cardinality(Component(grid, frame.startNode)) >= 3

\* C6: during and after a search no wall is marked visited or appended to
\* the visited-order, and a non-wall node other than the start has a finite
\* distance only through a finalized non-wall 4-neighbour, its previousNode.
C6_NeverThroughWalls ==
  frame.pc # "idle"
    => /\ \A c \in Cells : grid[c].isWall => ~grid[c].isVisited
       /\ \A i \in 1..Len(frame.visitedNodesInOrder) :
            ~grid[frame.visitedNodesInOrder[i]].isWall
       /\ \A c \in Cells :
            (~grid[c].isWall /\ c # frame.startNode /\ grid[c].distance < Infinity)
              => /\ grid[c].previousNode # Null
                 /\ grid[grid[c].previousNode].isVisited
                 /\ ~grid[grid[c].previousNode].isWall
                 /\ Adjacent(c, grid[c].previousNode)

\* C6 witness: a search is under way next to a wall that has been given a
\* finite distance, and has finalized several nodes.
C6_Witness ==
  /\ frame.pc = "loop"
  /\ Len(frame.visitedNodesInOrder) >= 2
  /\ \E c \in Cells : grid[c].isWall /\ grid[c].distance < Infinity

\* The cells whose node has the role flag set.
Holders(role) == { c \in Cells : grid[c][role] }

\* C7: after any sequence of controller operations the grid has at most one
\* node with isStart, at most one with isEnd and at most one with
\* isCheckpoint.
C7_AtMostOneOfEachRole ==
  /\ Cardinality(Holders("isStart")) <= 1
  /\ Cardinality(Holders("isEnd")) <= 1
  /\ Cardinality(Holders("isCheckpoint")) <= 1

\* C8: after any sequence of controller operations no node has more than
\* one of isStart, isEnd and isCheckpoint.
C8_AtMostOneRolePerNode ==
  \A c \in Cells :
    /\ ~(grid[c].isStart /\ grid[c].isEnd)
    /\ ~(grid[c].isStart /\ grid[c].isCheckpoint)
    /\ ~(grid[c].isEnd /\ grid[c].isCheckpoint)

\* C9: after any sequence of controller operations no node that is Start,
\* End or Checkpoint is a wall.
C9_NoSpecialNodeIsWall ==
  \A c \in Cells : isSpecial(grid[c]) => ~grid[c].isWall

\* C10: at any time at most one search or maze generation (its wall
\* animation included) is active on the grid.
C10_AtMostOneActivity == Len(searches) + Len(mazes) <= 1

\* The walls of g on a freshly built grid.
FreshGrid(g) == gridWithWalls({ c \in Cells : g[c].isWall })

\* The orchestrator t went the fallback way and its direct search is over.
FallbackTaken(t) ==
  t.pc = "animatePath" /\ t.checkpointNode # Null /\ t.pathToCheckpoint = Null

\* C11: with a checkpoint, when phase 1 ends with the checkpoint unvisited
\* the orchestrator runs one more search and no other, start to end: what
\* it returns and the path rebuilt from End are those of a direct search on
\* a fresh grid with the same walls (a shortest path when End is reachable);
\* no path to the checkpoint and no second segment is kept, and the
\* checkpoint is unvisited before and after that search.
C11_FallbackIsDirectSearch ==
  \A i \in 1..Len(searches) :
    LET t == searches[i]
        direct == engineRun(t.algorithm, FreshGrid(grid), t.startNode, t.endNode)
    IN  /\ t.pc = "fallback"
             => /\ ~grid[t.checkpointNode].isVisited
                /\ t.pathToCheckpoint = Null /\ t.pathNodes = Null
        /\ FallbackTaken(t)
             => /\ ~grid[t.checkpointNode].isVisited
                /\ t.visitedNodesSecond = <<>> /\ t.pathToEnd = Null
                /\ t.directPath = direct.frame.visitedNodesInOrder
                /\ t.pathNodes = getNodesInShortestPathOrder(direct.grid, t.endNode)
                /\ t.pathNodes = getNodesInShortestPathOrder(grid, t.endNode)
                /\ Reachable(grid, t.startNode, t.endNode)
                     => /\ Head(t.pathNodes) = t.startNode
                        /\ t.pathNodes[Len(t.pathNodes)] = t.endNode
                        /\ IsOpenWalk(grid, t.pathNodes)
                        /\ Len(t.pathNodes) =
                             UnitDistance(grid, t.startNode, t.endNode) + 1

\* C11 witness: an orchestrator whose phase 1 visited several nodes without
\* reaching a checkpoint that is no wall has finished the direct search and
\* holds a path from Start to End.
C11_Witness ==
  \E i \in 1..Len(searches) :
    /\ FallbackTaken(searches[i])
    /\ ~grid[searches[i].checkpointNode].isWall
    /\ Len(searches[i].visitedNodesFirst) >= 2
    /\ Len(searches[i].pathNodes) >= 2
    /\ Head(searches[i].pathNodes) = searches[i].startNode

\* The grid search i works on.
GridOf(i) == IF searches[i].detached THEN searches[i].own ELSE grid

\* C12: when phase 1 has reached the checkpoint, phase 2 starts on a grid
\* where every node has distance, totalDistance, previousNode and isVisited
\* reset: no distance, no previous node, not visited, and no totalDistance
\* left by a search (Infinity, or the property never created).
C12_Phase2StartsReset ==
  \A i \in 1..Len(searches) :
    searches[i].pc = "phase2"
      => \A c \in Cells :
           /\ GridOf(i)[c].distance = Infinity
           /\ GridOf(i)[c].totalDistance \in {Infinity, Undefined}
           /\ GridOf(i)[c].previousNode = Null
           /\ ~GridOf(i)[c].isVisited

\* isWall and the role flags of the node at c are the same in g and h.
SameFlags(g, h, c) ==
  /\ h[c].isWall = g[c].isWall
  /\ h[c].isStart = g[c].isStart
  /\ h[c].isEnd = g[c].isEnd
  /\ h[c].isCheckpoint = g[c].isCheckpoint

\* C13: drawing a wall on a Start, End or Checkpoint node changes neither
\* its isWall nor its role flags: getNewGridWithWallMode aimed at such a
\* node returns the grid as it is, createBoostWalls with such a node in its
\* pattern leaves that node alone, and handleMouseDown and handleMouseEnter
\* on any cell leave every such node alone.
C13_WallOnSpecialIsNoOp ==
  \A c \in Cells :
    isSpecial(grid[c])
      => /\ \A wallMode \in {"add", "remove"} :
              getNewGridWithWallMode(grid, c, wallMode) = grid
         /\ \A cell \in Cells :
              /\ \A wallMode \in {"add", "remove"} :
                   SameFlags(grid, createBoostWalls(grid, cell, wallMode), c)
              /\ SameFlags(grid, handleMouseDownGrid(grid, state, cell), c)
              /\ SameFlags(grid, handleMouseEnterGrid(grid, state, cell), c)

\* C13 witness: a boost stroke has just walled a cell next to a special
\* node, and that node is no wall.
C13_Witness ==
  /\ state.boostWallEnabled
  /\ state.message # Null
  /\ grid[state.message].isWall
  /\ \E c \in Cells :
       /\ c \in boostPattern(state.message)
       /\ isSpecial(grid[c])
       /\ ~grid[c].isWall

\* C14: dropping the dragged start, end or checkpoint on a wall leaves the
\* grid as it is: the role stays with its holders and the wall under the
\* drop keeps its flags, a role it did not have not gained.
C14_DropOnWallIsNoOp ==
  \A cell \in Cells :
    (state.dragging.isDragging /\ grid[cell].isWall)
      => LET after == handleDropGrid(grid, state, cell)
         IN  /\ after = grid
             /\ after[cell].isWall
             /\ isSpecial(after[cell]) = isSpecial(grid[cell])

\* C14 witness: a special node is being dragged over a grid that has a wall
\* without a role to drop it on.
C14_Witness ==
  /\ state.dragging.isDragging
  /\ \E cell \in Cells : grid[cell].isWall /\ ~isSpecial(grid[cell])
  /\ \E c \in Cells : isSpecial(grid[c]) /\ ~grid[c].isWall

\* The role flags of a node, as a set.
RolesOf(node) ==
  { f \in {"isStart", "isEnd", "isCheckpoint"} : node[f] }

\* C15: moveSpecialNode called to move the role nodeType from a node that
\* holds it: onto a wall it leaves the grid as it is; onto any other node
\* it leaves the source (when it is not the target) without a role and the
\* target with the role nodeType and no other.
C15_MoveSpecialNode ==
  \A source \in Cells, target \in Cells,
     nodeType \in {"start", "end", "checkpoint"} :
    grid[source][roleFlag(nodeType)]
      => LET after == moveSpecialNode(grid, source, target, nodeType)
         IN  IF grid[target].isWall
             THEN after = grid
             ELSE /\ source # target => RolesOf(after[source]) = {}
                  /\ RolesOf(after[target]) = {roleFlag(nodeType)}

\* A generator has been called on the board and has returned.
MazeReturned == board.generator # "none" /\ board.calls = <<>>

\* The start, target and object cells of the board.
SpecialCells(b) == {b.start, b.target} \cup (IF b.object # Null THEN {b.object} ELSE {})

\* The cell is a wall of the result: its status is 'wall' or it is among
\* the emitted placements.
EmittedWall(b, c) ==
  b.status[c] = "wall" \/ \E i \in 1..Len(b.wallsToAnimate) : b.wallsToAnimate[i] = c

\* C16: whatever generator runs on the board and whatever it draws, neither
\* the start, nor the target, nor the object cell gets status 'wall' or is
\* pushed to wallsToAnimate.
C16_NoWallOnSpecialCell ==
  board.generator # "none"
    => \A n \in SpecialCells(board) : ~EmittedWall(board, n)

\* C17: when a generator has returned, no cell within two rows and two
\* columns of the start, target or object cell is a wall of its result.
C17_ClearAroundSpecialCells ==
  MazeReturned
    => \A n \in SpecialCells(board), c \in BoardCells :
         (Abs(c[1] - n[1]) <= 2 /\ Abs(c[2] - n[2]) <= 2)
           => ~EmittedWall(board, c)

\* The cells of the board without status 'wall'.
BoardOpen(b) == { c \in BoardCells : b.status[c] # "wall" }

RECURSIVE BoardClosure(_, _)
BoardClosure(b, S) ==
  LET T == S \cup { c \in BoardOpen(b) :
                      \E d \in S : Abs(c[1] - d[1]) + Abs(c[2] - d[2]) = 1 }
  IN  IF T = S THEN S ELSE BoardClosure(b, T)

\* C18: when recursive division has returned on a board that had no wall,
\* every cell that is not a wall, End among them, is joined to Start by
\* 4-adjacent cells that are not walls.
C18_RecursiveDivisionConnected ==
  (MazeReturned /\ board.generator = "recursive")
    => BoardOpen(board) \subseteq BoardClosure(board, {board.start})

\* The visited order and the path of an engine result r.
ResultOf(r) ==
  << r.frame.visitedNodesInOrder,
     getNodesInShortestPathOrder(r.grid, r.frame.finishNode) >>

\* C19: an engine run again with the same start, target and walls returns
\* the same visited order and the same path, and both are those of the run
\* on a grid that no search has touched: the values earlier searches left
\* in distance, totalDistance, heuristic, previousNode and isVisited do not
\* matter.
C19_RerunSameResult ==
  frame.pc = "returned" =>
    LET here  == ResultOf([ grid |-> grid, frame |-> frame ])
        again == engineRun(frame.algorithm, grid,
                           frame.startNode, frame.finishNode)
        fresh == engineRun(frame.algorithm, FreshGrid(grid),
                           frame.startNode, frame.finishNode)
    IN  ResultOf(again) = here /\ ResultOf(fresh) = here

\* A dijkstra run that found a path on a grid an astar run had used before.
C19_Witness ==
  /\ Returned("dijkstra")
  /\ Len(PathOfFrame) >= 3
  /\ PathOfFrame[1] = frame.startNode
  /\ \E c \in Cells : grid[c].totalDistance \notin {Undefined, Infinity}

\* The result of the delayed loop of the engine of the frame, on the walls
\* of the grid, with the start and the target of the frame.
DelayedOfFrame ==
  engineCall(frame.algorithm, "fast", FreshGrid(grid),
             frame.startNode, frame.finishNode)

\* C20: the loop of dijkstra and of astar under speed 'instant', with
\* nothing else touching the grid, ends with the visited order and the
\* previousNode of every node that the delayed loop produces for the same
\* grid, start and target.
C20_InstantEqualsDelayed ==
  frame.pc = "returned" =>
    LET delayed == DelayedOfFrame
    IN  /\ delayed.frame.visitedNodesInOrder = frame.visitedNodesInOrder
        /\ [ c \in Cells |-> delayed.grid[c].previousNode ]
             = [ c \in Cells |-> grid[c].previousNode ]

\* An instant astar run that skipped a wall and found a path.
C20_Witness ==
  /\ Returned("astar")
  /\ Len(frame.visitedNodesInOrder) >= 3
  /\ Len(PathOfFrame) >= 3
  /\ \E c \in Cells : grid[c].isWall

\* The search of the frame runs from the top left corner of the open grid
\* to its bottom right corner.
CornerToCorner ==
  /\ frame.startNode = <<0, 0>>
  /\ frame.finishNode = <<ScenarioRows - 1, ScenarioCols - 1>>

\* C21 as stated: on the open grid, from the top left corner to the bottom
\* right one, the visited order dijkstra returns is as long as the path,
\* the Manhattan distance plus one (9 on 5 x 5).
C21_VisitedAsLongAsPath ==
  (Returned("dijkstra") /\ CornerToCorner)
    => Len(frame.visitedNodesInOrder) = ScenarioRows + ScenarioCols - 1

\* C21, amended: the visited order holds every node of the grid (25 on
\* 5 x 5), the target last, and the path has the Manhattan distance plus
\* one nodes (9).
C21_VisitedIsWholeGrid ==
  (Returned("dijkstra") /\ CornerToCorner)
    => /\ Len(frame.visitedNodesInOrder) = ScenarioRows * ScenarioCols
       /\ frame.visitedNodesInOrder[Len(frame.visitedNodesInOrder)]
            = frame.finishNode
       /\ Len(PathOfFrame) = ScenarioRows + ScenarioCols - 1

C21_Witness ==
  /\ Returned("dijkstra")
  /\ CornerToCorner
  /\ DOMAIN grid = ScenarioCells
  /\ grid[frame.finishNode].isVisited

\* C22: a search whose start node is its target and is no wall finalizes
\* that node and no other: the visited order is the start alone, the start
\* is visited, and the path from the target is that one node.
C22_StartIsTarget ==
  ( /\ frame.pc = "returned"
    /\ frame.startNode = frame.finishNode
    /\ ~grid[frame.startNode].isWall )
    => /\ frame.visitedNodesInOrder = << frame.startNode >>
       /\ \A c \in DOMAIN grid : grid[c].isVisited <=> c = frame.startNode
       /\ PathOfFrame = << frame.startNode >>

\* An astar call from a node to itself has returned, on a grid with a wall
\* ahead of the node in the scan.
C22_Witness ==
  /\ Returned("astar")
  /\ frame.startNode = frame.finishNode
  /\ ~grid[frame.startNode].isWall
  /\ grid[<<0, 0>>].isWall
  /\ frame.visitedNodesInOrder # <<>>

\* C23: every call of dijkstra or astar returns, whatever the walls, the
\* start and the target, and when it has returned the target is finalized
\* or every node that can be reached from the start is.
C23_SearchTerminates ==
  (frame.pc = "loop")
    ~> ( /\ frame.pc = "returned"
         /\ \/ grid[frame.finishNode].isVisited
            \/ \A c \in Component(grid, frame.startNode) : grid[c].isVisited )

\* A call has returned after several iterations without its target.
C23_Witness ==
  /\ frame.pc = "returned"
  /\ ~grid[frame.finishNode].isVisited
  /\ Len(frame.visitedNodesInOrder) >= 3

\* C24: when an iteration of dijkstra finalizes a node, a node whose
\* distance is at most the distance of the finalized node plus one keeps
\* its distance and its previousNode: only a strictly shorter way changes
\* them.
C24_RelaxOnlyIfShorter ==
  (frame.algorithm = "dijkstra" /\ frame.pc = "loop") =>
    LET r       == dijkstraStep(grid, frame)
        visited == r.frame.visitedNodesInOrder
        current == visited[Len(visited)]
    IN  Len(visited) = Len(frame.visitedNodesInOrder) + 1 =>
          \A c \in DOMAIN grid :
            grid[c].distance <= grid[current].distance + 1
              => /\ r.grid[c].distance = grid[c].distance
                 /\ r.grid[c].previousNode = grid[c].previousNode

\* The next iteration of the loop of the frame f on the grid g.
LoopStep(g, f) ==
  IF f.algorithm = "dijkstra" THEN dijkstraStep(g, f) ELSE astarStep(g, f)

Last(seq) == seq[Len(seq)]

\* C25: the visited order names no node twice and names exactly the nodes
\* with isVisited set; an iteration appends the node it sets isVisited on
\* and no other; once the target is in the visited order it is its last
\* element and the call has returned; and a call that has returned with a
\* reachable target has the target there.
C25_VisitedOrder ==
  frame.pc \in {"loop", "returned"} =>
    LET visited == frame.visitedNodesInOrder
    IN  /\ \A i, j \in 1..Len(visited) : visited[i] = visited[j] => i = j
        /\ SeqToSet(visited) = { c \in DOMAIN grid : grid[c].isVisited }
        /\ frame.finishNode \in SeqToSet(visited)
             => Last(visited) = frame.finishNode /\ frame.pc = "returned"
        /\ ( /\ frame.pc = "returned"
             /\ Reachable(grid, frame.startNode, frame.finishNode) )
             => visited # <<>> /\ Last(visited) = frame.finishNode
        /\ frame.pc = "loop" =>
             LET r     == LoopStep(grid, frame)
                 newly == { c \in DOMAIN grid :
                              r.grid[c].isVisited /\ ~grid[c].isVisited }
             IN  \/ newly = {} /\ r.frame.visitedNodesInOrder = visited
                 \/ \E c \in newly :
                      /\ newly = {c}
                      /\ r.frame.visitedNodesInOrder = Append(visited, c)

\* A call has returned with its target, several nodes before it.
C25_Witness ==
  /\ frame.pc = "returned"
  /\ Len(frame.visitedNodesInOrder) >= 4
  /\ Last(frame.visitedNodesInOrder) = frame.finishNode
  /\ \E c \in DOMAIN grid : grid[c].isWall

\* C26: throughout a call of astar, on a grid an earlier search has used,
\* every node with a finite distance has totalDistance = distance + the
\* Manhattan distance to the target of this call.
C26_TotalDistanceOfCurrentTarget ==
  (frame.algorithm = "astar" /\ frame.pc \in {"loop", "returned"}) =>
    \A c \in DOMAIN grid :
      grid[c].distance # Infinity =>
        grid[c].totalDistance
          = grid[c].distance + manhattanDistance(c, frame.finishNode)

\* In the middle of a call of astar three nodes have a finite distance.
C26_Witness ==
  /\ frame.algorithm = "astar"
  /\ frame.pc = "loop"
  /\ Cardinality({ c \in DOMAIN grid : grid[c].distance # Infinity }) >= 3

\* The orchestrator of searches[i] awaits an engine call.
AwaitsEngine(i) == searches[i].pc \in {"direct", "phase1", "fallback", "phase2"}

\* C27: the engine call an orchestrator awaits, and the reset that follows
\* phase 1, leave isWall, isStart, isEnd and isCheckpoint of every node as
\* they were before the call; a node is its row and col, which nothing
\* changes.
C27_SearchKeepsWallsAndRoles ==
  \A i \in 1..Len(searches) :
    AwaitsEngine(i) =>
      LET t == searches[i]
          r == engineRun(t.algorithm, GridOf(i), searchFrom(t), searchTo(t))
          a == afterSearch(t, r)
      IN  /\ DOMAIN r.grid = DOMAIN GridOf(i)
          /\ DOMAIN a.grid = DOMAIN GridOf(i)
          /\ \A c \in DOMAIN GridOf(i) :
               SameFlags(GridOf(i), r.grid, c) /\ SameFlags(GridOf(i), a.grid, c)

\* Phase 2 of a search awaits its engine call on a grid with a wall, after
\* the reset between the phases.
C27_Witness ==
  \E i \in 1..Len(searches) :
    /\ searches[i].pc = "phase2"
    /\ searches[i].visitedNodesFirst # <<>>
    /\ \E c \in DOMAIN GridOf(i) : GridOf(i)[c].isWall

\* The four cells above, below, left and right of node, in that order.
UpDownLeftRight(node) ==
  << <<node[1] - 1, node[2]>>, <<node[1] + 1, node[2]>>,
     <<node[1], node[2] - 1>>, <<node[1], node[2] + 1>> >>

\* C28: for every node of the grid, getUnvisitedNeighbors gives the cells
\* above, below, left and right of it that are on the grid and not visited,
\* in that order, and so neither a diagonal cell, nor a cell off the grid,
\* nor the node itself.
C28_UnvisitedNeighbors ==
  \A node \in DOMAIN grid :
    LET neighbors == getUnvisitedNeighbors(node, grid)
    IN  /\ neighbors
             = SelectSeq(UpDownLeftRight(node),
                         LAMBDA n : n \in DOMAIN grid /\ ~grid[n].isVisited)
        /\ \A i \in 1..Len(neighbors) :
             /\ neighbors[i] \in DOMAIN grid
             /\ manhattanDistance(neighbors[i], node) = 1
             /\ ~grid[neighbors[i]].isVisited

\* A node inside the grid with a visited and an unvisited cell among its
\* four neighbours, and a visited corner.
C28_Witness ==
  /\ \E node \in DOMAIN grid :
       /\ Len(SelectSeq(UpDownLeftRight(node), LAMBDA n : n \in DOMAIN grid)) = 4
       /\ Len(getUnvisitedNeighbors(node, grid)) \in {1, 2, 3}
  /\ grid[<<0, 0>>].isVisited

\* C29: while isRunning is true, visualizeDijkstra and visualizeAStar return
\* at once: the grid, with every search field of every node, the state and
\* the searches in flight, with what they have found so far, are as before,
\* and the engine call a search awaits returns what it would have.
C29_VisualizeRejectedWhileRunning ==
  state.isRunning =>
    \A algorithm \in {"dijkstra", "astar"} :
      LET r == visualizeResult(algorithm, grid, state, searches)
      IN  /\ r.grid = grid
          /\ r.state = state
          /\ r.searches = searches
          /\ \A i \in 1..Len(searches) :
               (AwaitsEngine(i) /\ ~searches[i].detached) =>
                 engineRun(searches[i].algorithm, r.grid,
                           searchFrom(searches[i]), searchTo(searches[i]))
                   = engineRun(searches[i].algorithm, grid,
                               searchFrom(searches[i]), searchTo(searches[i]))

\* isRunning is true and a search is between its phases, with nodes visited.
C29_Witness ==
  /\ state.isRunning
  /\ \E i \in 1..Len(searches) :
       /\ searches[i].pc = "phase2"
       /\ searches[i].visitedNodesFirst # <<>>
       /\ searches[i].algorithm = "astar"

\* The cells of the region of a call; empty when rowEnd < rowStart or
\* colEnd < colStart.
Region(call) == (call.rowStart..call.rowEnd) \X (call.colStart..call.colEnd)

\* The call on top of the stack divides: for every wall and passage it can
\* draw, the two calls it makes are on strictly smaller regions.
DividesIntoSmaller ==
  (board.calls # <<>> /\ Region(Head(board.calls)) # {}) =>
    LET call == Head(board.calls)
    IN  /\ possibleLines(call) # {}
        /\ \A line \in possibleLines(call), passage \in possiblePassages(call) :
             LET after == divide(board, line, passage).calls
             IN  /\ Len(after) = Len(board.calls) + 1
                 /\ \A k \in 1..2 :
                      /\ Region(after[k]) \subseteq Region(call)
                      /\ Region(after[k]) # Region(call)

\* C30: recursive division terminates for every board, region and outcome of
\* the random choices: every call it makes is on a strictly smaller region
\* than its caller, and every started generation reaches the state with no
\* call pending.
C30_RecursiveDivisionTerminates ==
  /\ []DividesIntoSmaller
  /\ (board.generator = "recursive") ~> (board.calls = <<>>)

\* The generation has returned after dividing at least three times (walls
\* of two orientations need two levels of the recursion).
C30_Witness ==
  /\ board.generator = "recursive"
  /\ board.calls = <<>>
  /\ \E a, b \in BoardCells :
       /\ a[1] # b[1] /\ a[2] # b[2]
       /\ a[1] \in 2..(BoardHeight - 3) /\ b[1] \in 2..(BoardHeight - 3)
       /\ a[2] \in 2..(BoardWidth - 3) /\ b[2] \in 2..(BoardWidth - 3)
       /\ board.status[a] = "wall" /\ board.status[b] = "wall"

\* The cells the stair pattern names on a board of the given height and
\* width: for k = 0, 1, ... while 2+3k < height-2 and 2+3k < width-2 the
\* horizontal and the vertical segment, then the border.
StairPattern(height, width) ==
  LET min(x, y) == IF x < y THEN x ELSE y
      ks == { k \in 0..height : 2 + 3 * k < height - 2 /\ 2 + 3 * k < width - 2 }
      horizontal == UNION { { <<2 + 3 * k, c>> :
                                c \in (2 + 3 * k)..(min(5 + 3 * k, width - 2) - 1) } : k \in ks }
      vertical == UNION { { <<r, 4 + 3 * k>> :
                              r \in (2 + 3 * k)..(min(5 + 3 * k, height - 2) - 1) } : k \in ks }
      border == { c \in (0..(height - 1)) \X (0..(width - 1)) :
                    \/ c[1] = 0 \/ c[2] = 0 \/ c[1] = height - 1 \/ c[2] = width - 1 }
  IN  horizontal \cup vertical \cup border

\* C31: the stair generator marks as walls exactly the cells of the stair
\* pattern and of the border except start and target, and every cell it
\* addresses (writes the status of, pushes) is a cell of the board.
C31_StairPattern ==
  board.generator = "stair" =>
    LET height == heightOf(board.status)
        width == widthOf(board.status)
        expected == StairPattern(height, width) \ {board.start, board.target}
    IN  /\ expected \subseteq DOMAIN board.status
        /\ \A c \in DOMAIN board.status : board.status[c] = "wall" <=> c \in expected
        /\ \A i \in 1..Len(board.wallsToAnimate) :
             board.wallsToAnimate[i] \in expected

\* A board that is not square, with a second step of the stair cut short by
\* the width, and the start on the first step.
C31_Witness ==
  /\ board.generator = "stair"
  /\ heightOf(board.status) = 9 /\ widthOf(board.status) = 8
  /\ board.start = <<2, 2>>
  /\ board.status[<<2, 2>>] # "wall"
  /\ board.status[<<5, 5>>] = "wall"
  /\ board.status[<<6, 7>>] = "wall"
  /\ board.status[<<5, 6>>] # "wall"

\* C32: the grid holds exactly one Start node and exactly one End node,
\* whatever drags, drops, randomizeNodes, resetGrid and checkpoint
\* operations came before.
C32_ExactlyOneStartAndEnd ==
  /\ Cardinality({ c \in Cells : grid[c].isStart }) = 1
  /\ Cardinality({ c \in Cells : grid[c].isEnd }) = 1

\* C33: state.checkpoint exists exactly when one node of the grid has
\* isCheckpoint, and then its row and col are the position of that node.
C33_CheckpointRecordAgrees ==
  LET holders == { c \in Cells : grid[c].isCheckpoint }
  IN  /\ state.checkpoint.exists <=> Cardinality(holders) = 1
      /\ state.checkpoint.exists => holders = { state.checkpoint.pos }

\* C34: while isRunning is true, a mouse down or a mouse enter on any cell,
\* a drop on any cell and clearWalls leave isWall and the role flags of
\* every node of the grid as they are.
C34_NoGridEditWhileRunning ==
  state.isRunning =>
    /\ \A cell \in Cells, c \in Cells :
         /\ SameFlags(grid, handleMouseDownGrid(grid, state, cell), c)
         /\ SameFlags(grid, handleMouseEnterGrid(grid, state, cell), c)
         /\ SameFlags(grid, handleDropGrid(grid, state, cell), c)
    /\ \A c \in Cells : SameFlags(grid, clearWallsOf(grid), c)

\* C35: from the reset of a dijkstra or astar call on, the start has
\* distance 0 and previousNode null, and every finalized node other than the
\* start has a previousNode that is finalized, is no wall, is 4-adjacent to
\* it and has a distance exactly one less.
C35_PreviousNodeOneLess ==
  frame.pc # "idle" =>
    /\ grid[frame.startNode].distance = 0
    /\ grid[frame.startNode].previousNode = Null
    /\ \A c \in Cells :
         (grid[c].isVisited /\ c # frame.startNode) =>
           LET previousNode == grid[c].previousNode
           IN  /\ previousNode # Null
               /\ grid[previousNode].isVisited
               /\ ~grid[previousNode].isWall
               /\ Adjacent(c, previousNode)
               /\ grid[previousNode].distance = grid[c].distance - 1

\* An astar call has finalized four nodes or more on a grid with a wall.
C35_Witness ==
  /\ frame.pc # "idle"
  /\ frame.algorithm = "astar"
  /\ Len(frame.visitedNodesInOrder) >= 4
  /\ \E c \in Cells : grid[c].isWall
  /\ \E c \in Cells : grid[c].isVisited /\ grid[c].distance = 3

\* One of the two flags is up.
FlagUp == state.isRunning \/ state.isVisualizing

C37_PlacementsAgreeWithStatus ==
  board.generator \in {"random", "basicRandom"} =>
    \A c \in BoardCells :
      (\E i \in 1..Len(board.wallsToAnimate) : board.wallsToAnimate[i] = c)
        <=> board.status[c] = "wall"

\* C38: recursive division of OldRecursiveMaze terminates for every outcome
\* of its random choices: every generation started reaches the state with
\* no call of addInnerWalls pending.
C38_OldDivisionTerminates ==
  (board.generator = "oldRecursive") ~> (board.calls = <<>>)
====
